---- MODULE Spec2Model ----
(***************************************************************************)
(* Model of the clevo fan-control daemon: the control loop of              *)
(* src/src/clevo-daemon.c (main, daemon_ec_worker, ec_auto_duty_adjust,    *)
(* the adaptive tuner) running concurrently with the socket server of      *)
(* src/src/clevo-daemon-socket.c (socket_server_thread,                    *)
(* handle_client_command) over the shared share_info structure.            *)
(*                                                                         *)
(* Conventions.                                                            *)
(*  - A C string is a sequence of one-character strings.                   *)
(*  - A C double is an integer number of micro-units (value * SCALE).      *)
(*  - Each access of a thread to share_info is a step of its own: the      *)
(*    code takes no lock, so the threads interleave between any two        *)
(*    accesses.                                                            *)
(***************************************************************************)
EXTENDS Integers, Sequences, FiniteSets, TLC

(***************************************************************************)
(* Bounds of the model.                                                    *)
(***************************************************************************)
\* control ticks (iterations of the main loop) explored
MaxTicks == 2
\* client connections accepted by the socket server
MaxRequests == 1
\* asynchronous signals delivered to the process
MaxSignals == 1
\* PID updates of the controller explored on its own
MaxUpdates == 3
\* ticks of the control loop explored with readings that hardly change
MaxIdleTicks == 10
\* ticks of the control loop explored around a step of the load
MaxStepTicks == 12
MaxRepeats == 3
MaxQueries == 1
MaxCycleTicks == 31
MaxVariedTicks == 3

(***************************************************************************)
(* C strings.                                                              *)
(***************************************************************************)
NL == "\n"

W_STATUS == <<"S","T","A","T","U","S">>
W_SET_FAN == <<"S","E","T","_","F","A","N">>
W_SET_AUTO == <<"S","E","T","_","A","U","T","O">>
W_SET_TARGET_TEMP == <<"S","E","T","_","T","A","R","G","E","T","_","T","E","M","P">>
W_GET_TEMP == <<"G","E","T","_","T","E","M","P">>
W_GET_FAN == <<"G","E","T","_","F","A","N">>

Digits == {"0","1","2","3","4","5","6","7","8","9"}

DigitVal(c) ==
    CASE c = "0" -> 0 [] c = "1" -> 1 [] c = "2" -> 2 [] c = "3" -> 3
      [] c = "4" -> 4 [] c = "5" -> 5 [] c = "6" -> 6 [] c = "7" -> 7
      [] c = "8" -> 8 [] c = "9" -> 9

\* isspace() for the characters that occur in request frames
IsSpace(c) == c \in {" ", NL, "\t", "\r"}

\* the first n characters of s (all of s when it is shorter)
Take(s, n) == SubSeq(s, 1, IF Len(s) < n THEN Len(s) ELSE n)

\* the rest of s from position i (1-based)
Drop(s, i) == SubSeq(s, i, Len(s))

\* strncmp(a, b, n) == 0
strncmp_eq(a, b, n) == Take(a, n) = Take(b, n)

\* strcmp(a, b) == 0
strcmp_eq(a, b) == a = b

\* position of the first non-space character of s at or after i
RECURSIVE SkipSpace(_, _)
SkipSpace(s, i) ==
    IF i <= Len(s) /\ IsSpace(s[i]) THEN SkipSpace(s, i + 1) ELSE i

\* value of the run of decimal digits of s starting at i, continuing acc
RECURSIVE ScanDigits(_, _, _)
ScanDigits(s, i, acc) ==
    IF i <= Len(s) /\ s[i] \in Digits
    THEN ScanDigits(s, i + 1, acc * 10 + DigitVal(s[i]))
    ELSE acc

\* the %d conversion of sscanf on s from position i:
\* skip white space, an optional sign, then at least one digit
ScanInt(s, i) ==
    LET j == SkipSpace(s, i)
        neg == j <= Len(s) /\ s[j] = "-"
        k == IF j <= Len(s) /\ s[j] \in {"-", "+"} THEN j + 1 ELSE j
    IN  IF k <= Len(s) /\ s[k] \in Digits
        THEN [ok |-> TRUE,
              val |-> IF neg THEN 0 - ScanDigits(s, k, 0) ELSE ScanDigits(s, k, 0)]
        ELSE [ok |-> FALSE, val |-> 0]

\* sscanf(command, "<word> %d", &v) == 1, and the value stored in v:
\* the literal word must match, the blank of the format skips any white
\* space (also none), then %d converts
sscanf_word_int(command, word) ==
    IF Take(command, Len(word)) = word
    THEN ScanInt(command, Len(word) + 1)
    ELSE [ok |-> FALSE, val |-> 0]

(***************************************************************************)
(* The request frames a client may send (clients of the repository send    *)
(* the bare command; the frames below add a terminating newline, trailing  *)
(* characters, and malformed and out-of-range arguments).                  *)
(***************************************************************************)
Frames ==
    { W_STATUS, W_STATUS \o <<NL>>, W_STATUS \o <<"X">>,
      W_GET_TEMP, W_GET_TEMP \o <<NL>>,
      W_GET_FAN, W_GET_FAN \o <<NL>>,
      W_SET_AUTO, W_SET_AUTO \o <<NL>>,
      W_SET_FAN \o <<" ","8","0">>, W_SET_FAN \o <<" ","8","0",NL>>,
      W_SET_FAN \o <<" ","5","0">>,
      W_SET_FAN \o <<" ","1","5","0">>, W_SET_FAN \o <<" ","0">>,
      W_SET_FAN \o <<" ","-","5">>,
      W_SET_FAN \o <<" ","x">>, W_SET_FAN, W_SET_FAN \o <<" ","5","0","x">>,
      W_SET_TARGET_TEMP \o <<" ","7","0">>,
      W_SET_TARGET_TEMP \o <<" ","7","0",NL>>,
      W_SET_TARGET_TEMP \o <<" ","2","0","0">>,
      W_SET_TARGET_TEMP \o <<" ","x">>,
      <<"H","E","L","L","O">> }

\* the frames the repository's client sends: the bare command text
ClientFrames ==
    { W_STATUS, W_GET_TEMP, W_GET_FAN, W_SET_AUTO,
      W_SET_FAN \o <<" ","8","0">>, W_SET_FAN \o <<" ","5","0">>,
      W_SET_TARGET_TEMP \o <<" ","7","0">> }

(***************************************************************************)
(* Program constants.                                                      *)
(***************************************************************************)
\* micro-units per unit of a C double
SCALE == 1000000
\* capacity of adaptive_temp_history
HISTORY_SIZE == 60
\* return values of ec_write_fan_duty, ec_io_do and ec_io_wait
EXIT_SUCCESS == 0
EXIT_FAILURE == 1

MAX(a, b) == IF a > b THEN a ELSE b

Abs(x) == IF x < 0 THEN 0 - x ELSE x

\* x clamped by "if (x < lo) x = lo; if (x > hi) x = hi;"
Clamp(x, lo, hi) == IF x < lo THEN lo ELSE IF x > hi THEN hi ELSE x

\* C integer division (truncation toward zero)
CDiv(a, b) == IF a >= 0 THEN a \div b ELSE 0 - ((0 - a) \div b)

\* largest r with r * r <= x, by bisection on lo..hi
RECURSIVE ISqrtIn(_, _, _)
ISqrtIn(x, lo, hi) ==
    IF lo >= hi THEN lo
    ELSE LET mid == (lo + hi + 1) \div 2
         IN  IF mid * mid <= x THEN ISqrtIn(x, mid, hi) ELSE ISqrtIn(x, lo, mid - 1)

ISqrt(x) == ISqrtIn(x, 0, 46340)

(***************************************************************************)
(* Sensor/actuator conversions.  The double expressions of the source      *)
(* agree with the integer expressions below on their whole domains         *)
(* (raw 0..255, duty 1..100).                                              *)
(***************************************************************************)
calculate_fan_duty_rounded(raw_duty) == (raw_duty * 100 + 127) \div 255

\* (int) ((double) raw_duty / 255.0 * 100.0)
calculate_fan_duty(raw_duty) == (raw_duty * 100) \div 255

calculate_fan_rpms_swapped(raw_rpm_high, raw_rpm_low) ==
    LET raw_rpm == raw_rpm_low * 256 + raw_rpm_high
    IN  IF raw_rpm > 0 THEN 2156220 \div raw_rpm ELSE 0

calculate_fan_rpms(raw_rpm_high, raw_rpm_low) ==
    LET raw_rpm == raw_rpm_high * 256 + raw_rpm_low
    IN  IF raw_rpm > 0 THEN 2156220 \div raw_rpm ELSE 0

\* the value byte ec_write_fan_duty hands to ec_io_do:
\* (int) (((double) duty_percentage) / 100.0 * 255.0)
FanDutyByte(duty_percentage) == (duty_percentage * 255) \div 100

FanDutyRejectedAbove(duty_percentage) == duty_percentage > 100

\* ec_write_fan_duty's argument check: TRUE when the write is refused
FanDutyRejected(duty_percentage) == duty_percentage < 1 \/ duty_percentage > 100

(***************************************************************************)
(* State.                                                                  *)
(***************************************************************************)
VARIABLES
    share_info,          \* the shared structure: cpu_temp, gpu_temp, fan_duty,
                         \* fan_rpms, auto_duty, auto_duty_val, manual_*, exit
    running,             \* main loop flag of clevo-daemon.c
    target_temperature,
    cfg,                 \* options fixed by parse_command_line
    pid,                 \* pid_kp, pid_ki, pid_kd, pid_integral, pid_prev_error
    adaptive,            \* the adaptive_* variables
    handlers,            \* signal number -> installed handler
    socket_running,      \* loop flag of the socket server thread
    server_sock,         \* "none", "open" or "closed"
    socket_file,         \* TRUE while /tmp/clevo-daemon.sock exists
    mainPc,              \* position of the main (control) thread
    worker,              \* locals of daemon_ec_worker
    ipcPc,               \* position of the socket server thread
    ipc,                 \* locals of the socket server thread and its handler
    ec,                  \* the EC's register file (hardware)
    tick,                \* number of control ticks begun
    served,              \* number of connections accepted
    delivered,           \* number of signals delivered
    ecWrite,             \* history: the last two fan-duty writes sent to the EC
    tickStart,           \* history: control state when the current tick began
    sigSeen,             \* history: signal handled while the main loop ran
    io,                  \* per thread of control: its EC port transaction
    bulk,                \* history: outcomes of the sysfs bulk reads so far
    load,                \* history: the step of the load and the duty before it
    again,               \* history: the request handled before the one in hand
                         \* and the control state it left
    activity,            \* history: the documented activity detector fed with
                         \* every sample
    inst                 \* the instances of the program and their start-up

vars ==
    << share_info, running, target_temperature, cfg, pid, adaptive, handlers,
       socket_running, server_sock, socket_file, mainPc, worker, ipcPc, ipc,
       ec, tick, served, delivered, ecWrite, tickStart, sigSeen, io, bulk,
       inst, activity, load, again >>

(***************************************************************************)
(* Adaptive tuner (clevo-daemon.c).  Scores and gains are in micro-units;  *)
(* pid_integral and pid_prev_error only ever hold whole numbers (sums and  *)
(* differences of integer temperatures) and are kept in whole units.       *)
(***************************************************************************)
\* adaptive_temp_history is kept as a sequence indexed 1..HISTORY_SIZE
\* (C index i is position i + 1)
adaptive_pid_add_temp_history(a, temp) ==
    [a EXCEPT !.temp_history[a.temp_history_index + 1] = temp,
              !.temp_history_index = (a.temp_history_index + 1) % HISTORY_SIZE,
              !.temp_history_size =
                  IF a.temp_history_size < HISTORY_SIZE
                  THEN a.temp_history_size + 1 ELSE a.temp_history_size]

RECURSIVE SumHistory(_, _)
SumHistory(h, n) == IF n = 0 THEN 0 ELSE h[n] + SumHistory(h, n - 1)

RECURSIVE SumSqHistory(_, _)
SumSqHistory(h, n) == IF n = 0 THEN 0 ELSE h[n] * h[n] + SumSqHistory(h, n - 1)

\* n * n * variance of the first n history entries (an integer):
\* n * sum(x^2) - (sum x)^2
VarianceTimesNSq(a) ==
    LET n == a.temp_history_size
        sx == SumHistory(a.temp_history, n)
    IN  n * SumSqHistory(a.temp_history, n) - sx * sx

\* sqrt(variance) in milli-units, rounded down to within 0.01
adaptive_pid_calculate_oscillation(a) ==
    IF a.temp_history_size < 10 THEN 0
    ELSE (ISqrt(VarianceTimesNSq(a) * 100) * 100) \div a.temp_history_size

\* error_score = 1.0 - error / 50.0, clamped to [0, 1]
ErrorScore(error) == Clamp(SCALE - (error * SCALE) \div 50, 0, SCALE)

\* oscillation_penalty = oscillation / 10.0, at most 1.0 (oscillation in
\* milli-units)
OscillationPenalty(oscillation) ==
    IF oscillation * 100 > SCALE THEN SCALE ELSE oscillation * 100

\* fan_score: the fan efficiency 1.0 - fan_duty / 100.0 when error < 5
FanScore(error, fan_duty) ==
    IF error < 5 THEN SCALE - (fan_duty * SCALE) \div 100 ELSE 0

\* the weighted sum 0.6, 0.3, 0.1
WeightedScore(error_score, oscillation_penalty, fan_score) ==
    (error_score * 6 + (SCALE - oscillation_penalty) * 3 + fan_score) \div 10

\* |MAX(cpu_temp, gpu_temp) - target_temperature|
AbsError(cpu_temp, gpu_temp, target) == Abs(MAX(cpu_temp, gpu_temp) - target)

adaptive_pid_calculate_performance_score(a, cpu_temp, gpu_temp, fan_duty, target) ==
    WeightedScore(ErrorScore(AbsError(cpu_temp, gpu_temp, target)),
                  OscillationPenalty(adaptive_pid_calculate_oscillation(a)),
                  FanScore(AbsError(cpu_temp, gpu_temp, target), fan_duty))

\* step *= -0.8
Reverse(step) == 0 - CDiv(step * 8, 10)

TuneWithReset(p, a, current_score, oscillation, error) ==
    [pid |-> [p EXCEPT !.integral = 0, !.prev_error = 0],
     adaptive |-> [a EXCEPT !.prev_score = current_score,
                            !.performance_score = current_score,
                            !.learning_cycles = a.learning_cycles + 1]]

\* the body of adaptive_pid_tune_parameters once the score, the oscillation
\* and the error are computed
TuneWith(p, a, current_score, oscillation, error) ==
    LET score_change == current_score - a.prev_score
        degraded == ~(score_change > 50000) /\ score_change < 0 - 50000
        kp_step == IF degraded THEN Reverse(a.kp_step) ELSE a.kp_step
        ki_step == IF degraded THEN Reverse(a.ki_step) ELSE a.ki_step
        kd_step == IF degraded THEN Reverse(a.kd_step) ELSE a.kd_step
        kp == IF current_score < cfg.adaptive_target_performance
              THEN Clamp(p.kp + kp_step, 500000, 5000000)
              ELSE p.kp
        ki == IF oscillation > 3000 THEN p.ki - ki_step
              ELSE IF error > 5 THEN p.ki + ki_step
              ELSE p.ki
        kd == IF oscillation > 3000 THEN p.kd + kd_step ELSE p.kd
    IN  [pid |-> [p EXCEPT !.kp = kp,
                           !.ki = Clamp(ki, 10000, 500000),
                           !.kd = Clamp(kd, 100000, 2000000)],
         adaptive |-> [a EXCEPT !.kp_step = kp_step,
                                !.ki_step = ki_step,
                                !.kd_step = kd_step,
                                !.prev_score = current_score,
                                !.performance_score = current_score,
                                !.learning_cycles = a.learning_cycles + 1]]

adaptive_pid_tune_parameters(p, a, cpu_temp, gpu_temp, fan_duty, target) ==
    TuneWith(p, a,
             adaptive_pid_calculate_performance_score(a, cpu_temp, gpu_temp,
                                                      fan_duty, target),
             adaptive_pid_calculate_oscillation(a),
             AbsError(cpu_temp, gpu_temp, target))

\* adaptive_pid_reset leaves the contents of adaptive_temp_history in place
adaptive_pid_reset(a) ==
    [a EXCEPT !.learning_cycles = 0,
              !.performance_score = 0,
              !.prev_score = 0,
              !.cycle_count = 0,
              !.temp_history_index = 0,
              !.temp_history_size = 0,
              !.kp_step = 100000,
              !.ki_step = 10000,
              !.kd_step = 50000]

pid_reset(p, a) ==
    [pid |-> [p EXCEPT !.integral = 0, !.prev_error = 0],
     adaptive |-> IF cfg.adaptive_pid_enabled # 0 THEN adaptive_pid_reset(a) ELSE a]

(***************************************************************************)
(* PID core: ec_auto_duty_adjust.  Returns the new duty together with the  *)
(* controller state the call leaves behind.                                *)
(***************************************************************************)
FallbackDutyUnfloored(cpu_temp, gpu_temp, fan_duty, target) ==
    LET temp == MAX(cpu_temp, gpu_temp)
        new_duty == IF temp >= target THEN fan_duty + 2
                    ELSE MAX(fan_duty - 2, 0)
    IN  IF new_duty > 100 THEN 100 ELSE IF new_duty < 0 THEN 0 ELSE new_duty

\* the branch taken when pid_enabled is 0
FallbackDuty(cpu_temp, gpu_temp, fan_duty, target) ==
    LET temp == MAX(cpu_temp, gpu_temp)
        new_duty == IF temp >= target THEN MAX(fan_duty + 2, 10)
                    ELSE MAX(fan_duty - 2, 0)
    IN  IF new_duty > 100 THEN 100 ELSE IF new_duty < 0 THEN 0 ELSE new_duty

\* "adaptive_cycle_count = 0" after the tuning pass
CycleRestarted(t) ==
    [pid |-> t.pid, adaptive |-> [t.adaptive EXCEPT !.cycle_count = 0]]

TuneIfDueLate(p, a, cpu_temp, gpu_temp, fan_duty, target) ==
    IF a.cycle_count > cfg.adaptive_tuning_interval
    THEN CycleRestarted(adaptive_pid_tune_parameters(p, a, cpu_temp, gpu_temp,
                                                     fan_duty, target))
    ELSE [pid |-> p, adaptive |-> a]

\* the tuning pass when the cycle counter a.cycle_count has reached the
\* interval
TuneIfDue(p, a, cpu_temp, gpu_temp, fan_duty, target) ==
    IF a.cycle_count >= cfg.adaptive_tuning_interval
    THEN CycleRestarted(adaptive_pid_tune_parameters(p, a, cpu_temp, gpu_temp,
                                                     fan_duty, target))
    ELSE [pid |-> p, adaptive |-> a]

\* adaptive_cycle_count++
CycleCounted(a) == [a EXCEPT !.cycle_count = a.cycle_count + 1]

\* history, cycle counter and the periodic tuning pass
AdaptiveStep(p, a, cpu_temp, gpu_temp, fan_duty, target) ==
    IF cfg.adaptive_pid_enabled = 0 THEN [pid |-> p, adaptive |-> a]
    ELSE TuneIfDue(p,
                   CycleCounted(adaptive_pid_add_temp_history(
                                    a, MAX(cpu_temp, gpu_temp))),
                   cpu_temp, gpu_temp, fan_duty, target)

IntegralUpdateNoWindup(integral, error) == integral + error

\* pid_integral after "pid_integral += error" and the anti-windup clamp
IntegralUpdate(integral, error) == Clamp(integral + error, 0 - 100, 100)

\* (int)(output + 0.5), then the range check of the duty
DutyOfOutput(output) == Clamp(CDiv(output + SCALE \div 2, SCALE), 0, 100)

PidOutputUnclamped(t, error, pid_integral) ==
    t.pid.kp * error + t.pid.ki * pid_integral
        + t.pid.kd * (error - t.pid.prev_error)

\* the PID terms, with the gains t.pid left by the tuner and the updated
\* integral
PidOutput(t, error, pid_integral) ==
    LET proportional == t.pid.kp * error
        integral == t.pid.ki * pid_integral
        derivative == t.pid.kd * (error - t.pid.prev_error)
    IN  Clamp(proportional + integral + derivative,
              cfg.pid_output_min, cfg.pid_output_max)

PidStep(t, error, pid_integral) ==
    [duty |-> DutyOfOutput(PidOutput(t, error, pid_integral)),
     output |-> PidOutput(t, error, pid_integral),
     pid |-> [t.pid EXCEPT !.integral = pid_integral, !.prev_error = error],
     adaptive |-> t.adaptive]

PidStepAfterTuning(t, error) ==
    PidStep(t, error, IntegralUpdate(t.pid.integral, error))

ec_auto_duty_adjust(p, a, cpu_temp, gpu_temp, fan_duty, target) ==
    IF cfg.pid_enabled = 0
    THEN [duty |-> FallbackDuty(cpu_temp, gpu_temp, fan_duty, target),
          output |-> 0, pid |-> p, adaptive |-> a]
    ELSE PidStepAfterTuning(
             AdaptiveStep(p, a, cpu_temp, gpu_temp, fan_duty, target),
             MAX(cpu_temp, gpu_temp) - target)

(***************************************************************************)
(* IPC command dispatch: handle_client_command.  The result names the      *)
(* branch taken and the parsed argument.                                   *)
(***************************************************************************)
handle_client_command(command) ==
    IF strncmp_eq(command, W_STATUS, 6) THEN [kind |-> "STATUS", n |-> 0]
    ELSE IF strncmp_eq(command, W_SET_FAN, 7)
    THEN LET r == sscanf_word_int(command, W_SET_FAN)
         IN  IF r.ok
             THEN IF r.val >= 1 /\ r.val <= 100
                  THEN [kind |-> "SET_FAN", n |-> r.val]
                  ELSE [kind |-> "ERROR_DUTY_RANGE", n |-> r.val]
             ELSE [kind |-> "ERROR_SET_FAN", n |-> 0]
    ELSE IF strcmp_eq(command, W_SET_AUTO) THEN [kind |-> "SET_AUTO", n |-> 0]
    ELSE IF strncmp_eq(command, W_SET_TARGET_TEMP, 14)
    THEN LET r == sscanf_word_int(command, W_SET_TARGET_TEMP)
         IN  IF r.ok
             THEN IF r.val >= 40 /\ r.val <= 100
                  THEN [kind |-> "SET_TARGET_TEMP", n |-> r.val]
                  ELSE [kind |-> "ERROR_TEMP_RANGE", n |-> r.val]
             ELSE [kind |-> "ERROR_SET_TARGET_TEMP", n |-> 0]
    ELSE IF strcmp_eq(command, W_GET_TEMP) THEN [kind |-> "GET_TEMP", n |-> 0]
    ELSE IF strcmp_eq(command, W_GET_FAN) THEN [kind |-> "GET_FAN", n |-> 0]
    ELSE [kind |-> "ERROR_UNKNOWN", n |-> 0]

\* the branches whose response text starts with "ERROR:"
ErrorKinds ==
    { "ERROR_DUTY_RANGE", "ERROR_SET_FAN", "ERROR_TEMP_RANGE",
      "ERROR_SET_TARGET_TEMP", "ERROR_UNKNOWN" }

\* the accesses to share_info a branch makes, in program order
\* (r_x reads field x for the response, w_x stores to field x)
HandlerSteps(kind) ==
    CASE kind = "STATUS" -> <<"r_cpu", "r_gpu", "r_duty", "r_rpms", "r_auto">>
      [] kind = "GET_TEMP" -> <<"r_cpu", "r_gpu">>
      [] kind = "GET_FAN" -> <<"r_duty", "r_rpms", "r_auto">>
      [] kind = "SET_FAN" -> <<"w_auto", "w_manual">>
      [] kind = "SET_AUTO" -> <<"w_auto", "w_manual">>
      [] OTHER -> <<"reply">>

NoResponse ==
    [kind |-> "NONE", n |-> 0, cpu |-> 0, gpu |-> 0, duty |-> 0, rpms |-> 0,
     auto |-> 0, stamps |-> {}]

(***************************************************************************)
(* The EC hardware: sensor readings the registers may show.                *)
(***************************************************************************)
Samples ==
    { [cpu |-> 45, gpu |-> 45, rpm_hi |-> 3, rpm_lo |-> 94],
      [cpu |-> 85, gpu |-> 60, rpm_hi |-> 1, rpm_lo |-> 234],
      [cpu |-> 115, gpu |-> 90, rpm_hi |-> 1, rpm_lo |-> 234] }

Signals == {"SIGTERM", "SIGINT", "SIGQUIT"}

\* outcomes of opening and reading /sys/kernel/debug/ec/ec0/io in one tick
SysfsOutcomes == {"ok", "unavailable", "open_failed", "read_error", "short_read"}

(***************************************************************************)
(* Initial state: main() of clevo-daemon.c in daemon mode, after           *)
(* signal_term(&daemon_on_sigterm) and daemon_init_share(), before         *)
(* init_socket_server().                                                   *)
(***************************************************************************)
daemon_init_share ==
    [exit |-> 0, cpu_temp |-> 0, gpu_temp |-> 0, fan_duty |-> 0, fan_rpms |-> 0,
     auto_duty |-> 1, auto_duty_val |-> 0, manual_next_fan_duty |-> 0,
     manual_prev_fan_duty |-> 0]

signal_term(handler) == [s \in Signals |-> handler]

InitPid == [kp |-> 2000000, ki |-> 100000, kd |-> 500000, integral |-> 0, prev_error |-> 0]

InitAdaptive ==
    [learning_cycles |-> 0, performance_score |-> 0, prev_score |-> 0,
     cycle_count |-> 0, temp_history |-> [i \in 1..HISTORY_SIZE |-> 0],
     temp_history_index |-> 0, temp_history_size |-> 0,
     kp_step |-> 100000, ki_step |-> 10000, kd_step |-> 50000,
     rapid_learning_cycles |-> 0, consecutive_stable_cycles |-> 0]

InitCfg(pid_enabled) ==
    [pid_enabled |-> pid_enabled, adaptive_pid_enabled |-> 1,
     adaptive_tuning_interval |-> 30, adaptive_target_performance |-> 800000,
     pid_output_min |-> 0, pid_output_max |-> 100 * SCALE]

\* the threads of control that hold the I/O permission of ec_init: the
\* control loop (daemon_ec_worker, main_ec_worker) and the indicator's UI
\* process (the menu callbacks)
Actors == {"worker", "ui"}

\* no EC transaction: locals of ec_io_read / ec_io_do before a call (cmd,
\* port and value are the arguments).  The rest is history: timed_out, a
\* wait has failed; late, the port accesses made after that; pre_cpu_temp,
\* cpu_temp when the transaction began; arg, the argument of
\* ec_write_fan_duty; sent, the bytes written so far as <<port, byte>>;
\* waits, the calls of ec_io_wait so far; sleeps and seen, the usleep calls
\* of the last wait and whether one of its readings showed the flag
IdleTxn ==
    [kind |-> "none", pc |-> 0, value |-> 0, last_wait |-> EXIT_SUCCESS,
     result |-> EXIT_SUCCESS, done |-> FALSE, timed_out |-> FALSE, late |-> 0,
     pre_cpu_temp |-> 0, arg |-> 0, cmd |-> 0, port |-> 0, sent |-> <<>>,
     waits |-> 0, sleeps |-> 0, seen |-> FALSE]

\* no bulk read of the sysfs image made yet
NoBulkRead == [failed |-> FALSE, retried |-> FALSE]

\* the activity detector before the first sample; pass_due and gains are
\* history: whether the last tick had a tuning pass due, and the gains
\* before it
NoActivity ==
    [temp_prev |-> 0, duty_prev |-> 0, consecutive_idle_cycles |-> 0,
     learning_inhibited |-> FALSE, pass_due |-> FALSE,
     gains |-> [kp |-> 0, ki |-> 0, kd |-> 0]]

\* history of a step of the load: whether the readings have jumped, the
\* ticks since the jump (the tick of the jump is 1) and the duty computed
\* on the tick before
NoLoad == [on |-> FALSE, since |-> 0, prev_duty |-> 0]

\* history of the requests of one client: the frame handled last, the frame
\* in hand and share_info as the last one left it
NoRepeat == [last |-> <<>>, req |-> <<>>, left |-> daemon_init_share]

\* the processes started from the daemon's executable
Instances == {1, 2, 3}

\* a process not yet exec'd
NotStarted == [pc |-> "off", count |-> 0]

\* locals of daemon_ec_worker between two ticks (they do not outlive a call)
IdleWorker ==
    [sysfs_available |-> FALSE,
     buf |-> [cpu |-> 0, gpu |-> 0, fan_duty_raw |-> 0, rpm_hi |-> 0, rpm_lo |-> 0],
     mode |-> 1, next_duty |-> 0, prev_auto_duty_val |-> 0, wrote |-> FALSE,
     write_result |-> EXIT_SUCCESS, output |-> 0]

\* locals of the server thread between two connections; pre is history:
\* the control state when the request in hand was received
IdleIpc ==
    [req |-> <<>>, cmd |-> [kind |-> "NONE", n |-> 0], step |-> 0,
     resp |-> NoResponse,
     pre |-> [auto_duty |-> 0, manual_next_fan_duty |-> 0, target |-> 0]]

InitButOptions ==
    /\ share_info = daemon_init_share
    /\ running = 1
    /\ target_temperature = 65
    /\ activity = NoActivity
    /\ load = NoLoad
    /\ again = NoRepeat
    /\ adaptive = InitAdaptive
    /\ handlers = signal_term("daemon_on_sigterm")
    /\ socket_running = 1
    /\ server_sock = "none"
    /\ socket_file \in BOOLEAN     \* a stale file of an earlier run may exist
    /\ mainPc = "init_socket"
    /\ worker = IdleWorker
    /\ ipcPc = "none"
    /\ ipc = IdleIpc
    /\ ec = [cpu |-> 0, gpu |-> 0, fan_duty_raw |-> 51, rpm_hi |-> 0, rpm_lo |-> 0]
    /\ tick = 0
    /\ served = 0
    /\ delivered = 0
    /\ ecWrite = [count |-> 0, duty |-> 0, prev_duty |-> 0, auto_duty |-> 1,
                  manual_next_fan_duty |-> 0]
    /\ tickStart = [auto_duty |-> 1, manual_next_fan_duty |-> 0, ipc_idle |-> TRUE]
    /\ sigSeen = "none"
    /\ io = [a \in Actors |-> IdleTxn]
    /\ bulk = NoBulkRead
    /\ inst = [i \in Instances |-> NotStarted]

InitButGains ==
    /\ \E pe \in {0, 1} : cfg = InitCfg(pe)
    /\ InitButOptions

Init ==
    /\ pid = InitPid
    /\ InitButGains

(***************************************************************************)
(* Main thread: start-up of the socket server.                             *)
(***************************************************************************)
\* init_socket_server succeeds: the stale socket file is unlinked, the
\* socket is bound (which creates the file), SIGTERM and SIGINT are given
\* to socket_signal_handler and the server thread is started
InitSocketServer ==
    /\ mainPc = "init_socket"
    /\ server_sock' = "open"
    /\ socket_file' = TRUE
    /\ handlers' = [handlers EXCEPT !["SIGTERM"] = "socket_signal_handler",
                                    !["SIGINT"] = "socket_signal_handler"]
    /\ ipcPc' = "select"
    /\ mainPc' = "loop"
    /\ UNCHANGED << share_info, running, target_temperature, cfg, pid, adaptive,
                    socket_running, worker, ipc, ec, tick, served, delivered,
                    ecWrite, tickStart, sigSeen, io, bulk, inst, activity, load, again >>

\* init_socket_server fails at bind() (after the unlink): main returns
\* EXIT_FAILURE
InitSocketServerFails ==
    /\ mainPc = "init_socket"
    /\ server_sock' = "closed"
    /\ socket_file' = FALSE
    /\ mainPc' = "exit_failure"
    /\ UNCHANGED << share_info, running, target_temperature, cfg, pid, adaptive,
                    handlers, socket_running, worker, ipcPc, ipc, ec, tick,
                    served, delivered, ecWrite, tickStart, sigSeen, io,
                    bulk, inst, activity, load, again >>

(***************************************************************************)
(* Main thread: the control loop, "while (running) { daemon_ec_worker();   *)
(* usleep(...); }", and daemon_ec_worker step by step.                     *)
(***************************************************************************)
\* the loop test; a tick begins when running is set
LoopTest ==
    /\ mainPc = "loop"
    /\ IF running # 0
       THEN /\ tick < MaxTicks
            /\ tick' = tick + 1
            /\ tickStart' = [auto_duty |-> share_info.auto_duty,
                             manual_next_fan_duty |-> share_info.manual_next_fan_duty,
                             ipc_idle |-> ipcPc # "handle"]
            /\ mainPc' = "probe"
       ELSE /\ mainPc' = "stop"
            /\ UNCHANGED << tick, tickStart >>
    /\ UNCHANGED << share_info, running, target_temperature, cfg, pid, adaptive,
                    handlers, socket_running, server_sock, socket_file, worker,
                    ipcPc, ipc, ec, served, delivered, ecWrite, sigSeen,
                    io, bulk, inst, activity, load, again >>

\* lines 287-327: probe the sysfs image and, when it opens, read all 256
\* registers at once.  The sensors show this tick's readings from here on
\* (the hardware changes them between ticks).
ProbeWith(o) ==
    /\ mainPc = "probe"
    /\ \E s \in Samples :
          ec' = [ec EXCEPT !.cpu = s.cpu, !.gpu = s.gpu,
                           !.rpm_hi = s.rpm_hi, !.rpm_lo = s.rpm_lo]
    /\ worker' = [worker EXCEPT !.sysfs_available = (o = "ok"),
                                !.buf = IF o = "ok" THEN ec' ELSE worker.buf]
    /\ mainPc' = "store_cpu"
    /\ UNCHANGED << share_info, running, target_temperature, cfg, pid, adaptive,
                    handlers, socket_running, server_sock, socket_file, ipcPc,
                    ipc, tick, served, delivered, ecWrite, tickStart,
                    sigSeen, io, inst, activity, load, again >>

ProbeSysfs == \E o \in SysfsOutcomes : ProbeWith(o) /\ UNCHANGED bulk

\* the outcomes in which read() on the sysfs file is called (line 305),
\* and those of them in which it fails or comes back short (lines 309, 321)
BulkReadTried == {"ok", "read_error", "short_read"}
BulkReadFailed == {"read_error", "short_read"}

\* the same step, with the history of the bulk reads kept: whether one has
\* failed, and whether a later tick has called read() on the image again
ProbeSysfsRecorded ==
    \E o \in SysfsOutcomes :
        /\ ProbeWith(o)
        /\ bulk' = [failed |-> bulk.failed \/ o \in BulkReadFailed,
                    retried |-> bulk.retried
                                  \/ (bulk.failed /\ o \in BulkReadTried)]

\* the tick whose store a snapshot field currently holds (0: the initial
\* value): the stores of a tick are made in the order cpu_temp, gpu_temp,
\* fan_duty, fan_rpms
StoredBy(pcsBefore) == IF mainPc \in pcsBefore THEN tick - 1 ELSE tick

stamp ==
    [cpu_temp |-> StoredBy({"probe", "store_cpu"}),
     gpu_temp |-> StoredBy({"probe", "store_cpu", "store_gpu"}),
     fan_duty |-> StoredBy({"probe", "store_cpu", "store_gpu", "store_duty"}),
     fan_rpms |-> StoredBy({"probe", "store_cpu", "store_gpu", "store_duty",
                            "store_rpms"})]

\* the register file this tick's stores read: the bulk image, or the EC
\* itself at the moment of the ec_query_* call
RegSource == IF worker.sysfs_available THEN worker.buf ELSE ec

\* one store to a snapshot field (lines 315-318 or 332-335)
Store(pc, field, value, next) ==
    /\ mainPc = pc
    /\ share_info' = [share_info EXCEPT ![field] = value]
    /\ mainPc' = next
    /\ UNCHANGED << running, target_temperature, cfg, pid, adaptive, handlers,
                    socket_running, server_sock, socket_file, worker, ipcPc, ipc,
                    ec, tick, served, delivered, ecWrite, tickStart,
                    sigSeen, io, bulk, inst, activity, load, again >>

StoreCpuTemp == Store("store_cpu", "cpu_temp", RegSource.cpu, "store_gpu")

StoreGpuTemp == Store("store_gpu", "gpu_temp", RegSource.gpu, "store_duty")

StoreFanDuty ==
    Store("store_duty", "fan_duty", calculate_fan_duty(RegSource.fan_duty_raw),
          "store_rpms")

StoreFanRpms ==
    Store("store_rpms", "fan_rpms",
          calculate_fan_rpms(RegSource.rpm_hi, RegSource.rpm_lo), "check_auto")

CheckAutoDutyIgnored ==
    /\ mainPc = "check_auto"
    /\ worker' = [worker EXCEPT !.mode = share_info.auto_duty]
    /\ mainPc' = "adjust"
    /\ UNCHANGED << share_info, running, target_temperature, cfg, pid, adaptive,
                    handlers, socket_running, server_sock, socket_file, ipcPc,
                    ipc, ec, tick, served, delivered, ecWrite, tickStart,
                    sigSeen, io, bulk, inst, activity, load, again >>

\* line 341: the only read of share_info->auto_duty in a tick
CheckAutoDuty ==
    /\ mainPc = "check_auto"
    /\ worker' = [worker EXCEPT !.mode = share_info.auto_duty]
    /\ mainPc' = IF share_info.auto_duty = 1 THEN "adjust" ELSE "sleep"
    /\ UNCHANGED << share_info, running, target_temperature, cfg, pid, adaptive,
                    handlers, socket_running, server_sock, socket_file, ipcPc,
                    ipc, ec, tick, served, delivered, ecWrite, tickStart,
                    sigSeen, io, bulk, inst, activity, load, again >>

AutoWriteDueAlsoZero(next_duty, auto_duty_val) == next_duty # auto_duty_val

\* line 344 without the comparison with the recorded duty
AutoWriteDueNoCoalescing(next_duty, auto_duty_val) == next_duty # 0

\* line 344: the write is issued only for a non-zero duty that differs from
\* the duty recorded last
AutoWriteDue(next_duty, auto_duty_val) ==
    next_duty # 0 /\ next_duty # auto_duty_val

\* lines 342-351: compute the duty, write it to the EC when due and record
\* it whatever ec_write_fan_duty returned.  The EC takes the value byte
\* when the handshake goes through (ok) and keeps its register otherwise.
WorkerAfterWrite(r, due, write_result) ==
    [worker EXCEPT !.next_duty = r.duty,
                   !.prev_auto_duty_val = share_info.auto_duty_val,
                   !.wrote = due,
                   !.write_result = write_result]

WriteAutoDuty(r, due) ==
    /\ pid' = r.pid
    /\ adaptive' = r.adaptive
    /\ IF due
       THEN /\ \E ok \in BOOLEAN :
                  IF ok /\ ~FanDutyRejected(r.duty)
                  THEN /\ ec' = [ec EXCEPT !.fan_duty_raw = FanDutyByte(r.duty)]
                       /\ worker' = WorkerAfterWrite(r, due, EXIT_SUCCESS)
                  ELSE /\ ec' = ec
                       /\ worker' = WorkerAfterWrite(r, due, EXIT_FAILURE)
            /\ ecWrite' = [count |-> IF ecWrite.count < 2
                                     THEN ecWrite.count + 1 ELSE 2,
                           duty |-> r.duty,
                           prev_duty |-> ecWrite.duty,
                           auto_duty |-> share_info.auto_duty,
                           manual_next_fan_duty |->
                               share_info.manual_next_fan_duty]
            /\ share_info' = [share_info EXCEPT !.auto_duty_val = r.duty]
       ELSE /\ worker' = WorkerAfterWrite(r, due, EXIT_SUCCESS)
            /\ UNCHANGED << ec, ecWrite, share_info >>

\* lines 342-351 with r the result of ec_auto_duty_adjust()
AdjustAndWrite ==
    /\ mainPc = "adjust"
    /\ \E r \in {ec_auto_duty_adjust(pid, adaptive, share_info.cpu_temp,
                                      share_info.gpu_temp, share_info.fan_duty,
                                      target_temperature)} :
          WriteAutoDuty(r, AutoWriteDue(r.duty, share_info.auto_duty_val))
    /\ mainPc' = "sleep"
    /\ UNCHANGED << running, target_temperature, cfg, handlers, socket_running,
                    server_sock, socket_file, ipcPc, ipc, tick, served,
                    delivered, tickStart, sigSeen, io, bulk, inst, activity, load, again >>

\* usleep(status_interval) and back to the loop test
Sleep ==
    /\ mainPc = "sleep"
    /\ mainPc' = "loop"
    /\ worker' = IdleWorker
    /\ UNCHANGED << share_info, running, target_temperature, cfg, pid, adaptive,
                    handlers, socket_running, server_sock, socket_file, ipcPc,
                    ipc, ec, tick, served, delivered, ecWrite, tickStart,
                    sigSeen, io, bulk, inst, activity, load, again >>

\* stop_socket_server, first half: clear the flag and close the socket
StopSocketServer ==
    /\ mainPc = "stop"
    /\ socket_running' = 0
    /\ server_sock' = "closed"
    /\ mainPc' = "join"
    /\ UNCHANGED << share_info, running, target_temperature, cfg, pid, adaptive,
                    handlers, socket_file, worker, ipcPc, ipc, ec, tick, served,
                    delivered, ecWrite, tickStart, sigSeen, io, bulk, inst, activity, load, again >>

\* stop_socket_server, second half: pthread_join returns once the server
\* thread has ended, then the socket file is unlinked and main returns
JoinAndUnlink ==
    /\ mainPc = "join"
    /\ ipcPc = "exited"
    /\ socket_file' = FALSE
    /\ mainPc' = "exit_success"
    /\ UNCHANGED << share_info, running, target_temperature, cfg, pid, adaptive,
                    handlers, socket_running, server_sock, worker, ipcPc, ipc,
                    ec, tick, served, delivered, ecWrite, tickStart,
                    sigSeen, io, bulk, inst, activity, load, again >>

(***************************************************************************)
(* Socket server thread: socket_server_thread and, inline, the handler.    *)
(***************************************************************************)
\* the loop test "while (socket_running)", and select() failing on the
\* closed socket: the thread ends
ServerThreadEnds ==
    /\ ipcPc = "select"
    /\ socket_running = 0 \/ server_sock = "closed"
    /\ ipcPc' = "exited"
    /\ UNCHANGED << share_info, running, target_temperature, cfg, pid, adaptive,
                    handlers, socket_running, server_sock, socket_file, mainPc,
                    worker, ipc, ec, tick, served, delivered, ecWrite, tickStart,
                    sigSeen, io, bulk, inst, activity, load, again >>

\* accept() succeeds and recv() delivers a request: handle_client_command
\* is entered with the received text
Accept(frames) ==
    /\ ipcPc = "select"
    /\ socket_running # 0
    /\ server_sock = "open"
    /\ served < MaxRequests
    /\ \E command \in frames :
          ipc' = [req |-> command,
                  cmd |-> handle_client_command(command),
                  step |-> 1,
                  resp |-> NoResponse,
                  pre |-> [auto_duty |-> share_info.auto_duty,
                           manual_next_fan_duty |-> share_info.manual_next_fan_duty,
                           target |-> target_temperature]]
    /\ served' = served + 1
    /\ ipcPc' = "handle"
    /\ UNCHANGED << share_info, running, target_temperature, cfg, pid, adaptive,
                    handlers, socket_running, server_sock, socket_file, mainPc,
                    worker, ec, tick, delivered, ecWrite, tickStart,
                    sigSeen, io, bulk, inst, activity, load, again >>

\* a request as the repository's client sends it
AcceptRequest == Accept(ClientFrames)

\* any request frame, well-formed or not
AcceptAnyFrame == Accept(Frames)

\* accept() succeeds but recv() returns 0 or -1: the connection is closed
\* without a response
AcceptEmpty ==
    /\ ipcPc = "select"
    /\ socket_running # 0
    /\ server_sock = "open"
    /\ served < MaxRequests
    /\ ipc' = [ipc EXCEPT !.req = <<>>, !.cmd = [kind |-> "NONE", n |-> 0],
                          !.step = 0, !.resp = NoResponse]
    /\ served' = served + 1
    /\ ipcPc' = "close"
    /\ UNCHANGED << share_info, running, target_temperature, cfg, pid, adaptive,
                    handlers, socket_running, server_sock, socket_file, mainPc,
                    worker, ec, tick, delivered, ecWrite, tickStart,
                    sigSeen, io, bulk, inst, activity, load, again >>

\* the response after one more access of the handler to share_info
Respond(resp, cmd, op) ==
    LET r == [resp EXCEPT !.kind = cmd.kind, !.n = cmd.n]
    IN  CASE op = "r_cpu" -> [r EXCEPT !.cpu = share_info.cpu_temp,
                                        !.stamps = @ \cup {stamp.cpu_temp}]
          [] op = "r_gpu" -> [r EXCEPT !.gpu = share_info.gpu_temp,
                                        !.stamps = @ \cup {stamp.gpu_temp}]
          [] op = "r_duty" -> [r EXCEPT !.duty = share_info.fan_duty,
                                         !.stamps = @ \cup {stamp.fan_duty}]
          [] op = "r_rpms" -> [r EXCEPT !.rpms = share_info.fan_rpms,
                                         !.stamps = @ \cup {stamp.fan_rpms}]
          [] op = "r_auto" -> [r EXCEPT !.auto = share_info.auto_duty]
          [] OTHER -> r

MutateAdding(cmd, op) ==
    CASE op = "w_auto" ->
            [share_info EXCEPT !.auto_duty = IF cmd.kind = "SET_FAN" THEN 0 ELSE 1]
      [] op = "w_manual" ->
            [share_info EXCEPT !.manual_next_fan_duty =
                                   IF cmd.kind = "SET_FAN" THEN @ + cmd.n ELSE 0]
      [] OTHER -> share_info

\* share_info after one more access of the handler
Mutate(cmd, op) ==
    CASE op = "w_auto" ->
            [share_info EXCEPT !.auto_duty = IF cmd.kind = "SET_FAN" THEN 0 ELSE 1]
      [] op = "w_manual" ->
            [share_info EXCEPT !.manual_next_fan_duty =
                                   IF cmd.kind = "SET_FAN" THEN cmd.n ELSE 0]
      [] OTHER -> share_info

\* one access of handle_client_command to share_info; after the last one
\* the response is sent
HandlerStep ==
    /\ ipcPc = "handle"
    /\ LET steps == HandlerSteps(ipc.cmd.kind)
           op == steps[ipc.step]
       IN  /\ share_info' = Mutate(ipc.cmd, op)
           /\ ipc' = [ipc EXCEPT !.resp = Respond(ipc.resp, ipc.cmd, op),
                                 !.step = ipc.step + 1]
           /\ ipcPc' = IF ipc.step = Len(steps) THEN "close" ELSE "handle"
    /\ UNCHANGED << running, target_temperature, cfg, pid, adaptive, handlers,
                    socket_running, server_sock, socket_file, mainPc, worker, ec,
                    tick, served, delivered, ecWrite, tickStart, sigSeen,
                    io, bulk, inst, activity, load, again >>

\* close(client_sock) and back to select()
CloseClient ==
    /\ ipcPc = "close"
    /\ ipcPc' = "select"
    /\ ipc' = IdleIpc
    /\ UNCHANGED << share_info, running, target_temperature, cfg, pid, adaptive,
                    handlers, socket_running, server_sock, socket_file, mainPc,
                    worker, ec, tick, served, delivered, ecWrite, tickStart,
                    sigSeen, io, bulk, inst, activity, load, again >>

(***************************************************************************)
(* Environment: signals and the EC's sensors.                              *)
(***************************************************************************)
\* TRUE while the process has not returned from main
Alive == mainPc \notin {"exit_success", "exit_failure"}

\* TRUE while main is in its control loop
InControlLoop ==
    mainPc \in {"loop", "probe", "store_cpu", "store_gpu", "store_duty",
                "store_rpms", "check_auto", "adjust", "sleep"}

\* a signal arrives and its installed handler runs:
\* daemon_on_sigterm or socket_signal_handler
DeliverSignal ==
    /\ Alive
    /\ delivered < MaxSignals
    /\ \E sig \in Signals :
          /\ IF handlers[sig] = "daemon_on_sigterm"
             THEN /\ running' = 0
                  /\ share_info' = [share_info EXCEPT !.exit = 1]
                  /\ UNCHANGED socket_running
             ELSE /\ socket_running' = 0
                  /\ UNCHANGED << running, share_info >>
          /\ sigSeen' = IF InControlLoop THEN sig ELSE sigSeen
    /\ delivered' = delivered + 1
    /\ UNCHANGED << target_temperature, cfg, pid, adaptive, handlers,
                    server_sock, socket_file, mainPc, worker, ipcPc, ipc, ec,
                    tick, served, ecWrite, tickStart, io, bulk, inst, activity, load, again >>

(***************************************************************************)
(* EC port transactions: ec_io_wait, ec_io_read, ec_io_do, one port access *)
(* per step.                                                               *)
(***************************************************************************)
\* the polls of ec_io_wait: "while (flag is wrong && (i++ < 100))"
EC_WAIT_POLLS == 100

\* the first reading of the status port (0 is the one before the loop) that
\* shows the flag at the awaited value; the last stands for never
ReadyAt == {0, 99, 100, 101}

\* the readings explored for each actor: every case for the control loop,
\* a flag that is right at once for the UI process
ReadyAtFor(a) == IF a = "worker" THEN ReadyAt ELSE {0}

\* the value of i when the loop of ec_io_wait is left, from the loop test
\* that sees reading number i
RECURSIVE ec_io_wait_loop(_, _)
ec_io_wait_loop(i, ready_at) ==
    IF i >= ready_at THEN i
    ELSE IF i < EC_WAIT_POLLS THEN ec_io_wait_loop(i + 1, ready_at)
    ELSE i + 1

ec_io_wait(ready_at) ==
    IF ec_io_wait_loop(0, ready_at) >= EC_WAIT_POLLS
    THEN EXIT_FAILURE ELSE EXIT_SUCCESS

RECURSIVE ec_io_wait_sleeps_unbounded(_, _)
ec_io_wait_sleeps_unbounded(i, ready_at) ==
    IF i >= ready_at THEN i
    ELSE ec_io_wait_sleeps_unbounded(i + 1, ready_at)

\* the calls of usleep(1000) the loop of ec_io_wait makes: the loop body
\* sleeps once and takes one reading each time the test lets it in, so the
\* test that sees reading number i comes after i calls
RECURSIVE ec_io_wait_sleeps(_, _)
ec_io_wait_sleeps(i, ready_at) ==
    IF i >= ready_at THEN i
    ELSE IF i < EC_WAIT_POLLS THEN ec_io_wait_sleeps(i + 1, ready_at)
    ELSE i

\* TRUE when one of the readings ec_io_wait takes (the one before the loop
\* or one after a usleep) shows the flag at the awaited value
RECURSIVE ec_io_wait_seen(_, _)
ec_io_wait_seen(i, ready_at) ==
    IF i >= ready_at THEN TRUE
    ELSE IF i < EC_WAIT_POLLS THEN ec_io_wait_seen(i + 1, ready_at)
    ELSE FALSE

\* the I/O ports of the EC and the read command
EC_SC == 102
EC_DATA == 98
EC_SC_READ_CMD == 128
EC_REG_CPU_TEMP == 7

\* the port accesses of ec_io_read and ec_io_do in order
ec_io_read_steps == <<"wait", "outb", "wait", "outb", "wait", "inb">>
ec_io_do_steps == <<"wait", "outb", "wait", "outb", "wait", "outb_value", "wait">>

TxnSteps(t) == IF t.kind = "read" THEN ec_io_read_steps ELSE ec_io_do_steps

\* the transaction is between its first port access and its return
InTransaction(t) == t.kind # "none" /\ ~t.done

\* the step the transaction of actor a is at
AtStep(a, step) ==
    /\ InTransaction(io[a])
    /\ io[a].pc <= Len(TxnSteps(io[a]))
    /\ TxnSteps(io[a])[io[a].pc] = step

\* what the transactions leave alone
EcRest ==
    UNCHANGED << running, target_temperature, cfg, pid, adaptive, handlers,
                 socket_running, server_sock, socket_file, mainPc, worker,
                 ipcPc, ipc, tick, served, delivered, ecWrite, tickStart,
                 sigSeen, bulk, inst, activity, load, again >>

\* a port access made after a wait of this transaction has failed
LateAccess(t) == IF t.timed_out THEN t.late + 1 ELSE t.late

\* ec_query_cpu_temp() is called: ec_io_read(EC_REG_CPU_TEMP) begins.  By
\* the control loop on the port-level path (line 332), by the UI process
\* in ui_command_show_temp.  The sensor shows one of two temperatures.
BeginRead(a) ==
    /\ ~InTransaction(io[a])
    /\ \E cpu \in {45, 85} : ec' = [ec EXCEPT !.cpu = cpu]
    /\ io' = [io EXCEPT ![a] = [IdleTxn EXCEPT !.kind = "read", !.pc = 1,
                                               !.cmd = EC_SC_READ_CMD,
                                               !.port = EC_REG_CPU_TEMP,
                                               !.pre_cpu_temp =
                                                   IF a = "worker"
                                                   THEN share_info.cpu_temp
                                                   ELSE 0]]
    /\ UNCHANGED share_info
    /\ EcRest

\* ec_write_fan_duty(duty_percentage) up to its first port access: the
\* call is over at once with EXIT_FAILURE when the argument is refused,
\* and ec_io_do(0x99, 0x01, v_i) begins otherwise
ec_write_fan_duty(duty_percentage) ==
    IF FanDutyRejected(duty_percentage)
    THEN [IdleTxn EXCEPT !.kind = "do", !.arg = duty_percentage,
                         !.done = TRUE, !.result = EXIT_FAILURE]
    ELSE [IdleTxn EXCEPT !.kind = "do", !.arg = duty_percentage, !.pc = 1,
                         !.cmd = 153, !.port = 1,
                         !.value = FanDutyByte(duty_percentage)]

\* the control loop calls ec_write_fan_duty with one of the duties
WriteFanDuty(duties) ==
    /\ ~InTransaction(io["worker"])
    /\ \E duty \in duties :
          io' = [io EXCEPT !["worker"] =
                    [ec_write_fan_duty(duty) EXCEPT
                         !.pre_cpu_temp = share_info.cpu_temp]]
    /\ UNCHANGED << share_info, ec >>
    /\ EcRest

\* ec_write_fan_duty(duty) is called by the control loop with a duty in
\* range: ec_io_do(0x99, 0x01, v_i) begins
BeginWrite == WriteFanDuty({50})

\* one call of ec_io_wait; its result is kept only to be returned by the
\* last wait of ec_io_do
EcIoWait(a) ==
    /\ AtStep(a, "wait")
    /\ \E ready_at \in ReadyAtFor(a) :
          io' = [io EXCEPT ![a].last_wait = ec_io_wait(ready_at),
                           ![a].timed_out =
                               @ \/ ec_io_wait(ready_at) = EXIT_FAILURE,
                           ![a].waits = @ + 1,
                           ![a].sleeps = ec_io_wait_sleeps(0, ready_at),
                           ![a].seen = ec_io_wait_seen(0, ready_at),
                           ![a].pc = @ + 1]
    /\ UNCHANGED << share_info, ec >>
    /\ EcRest

\* outb of the command or of the register address
EcOutb(a) ==
    /\ AtStep(a, "outb")
    /\ io' = [io EXCEPT ![a].late = LateAccess(io[a]),
                        ![a].sent = Append(@, IF io[a].pc = 2
                                              THEN <<EC_SC, io[a].cmd>>
                                              ELSE <<EC_DATA, io[a].port>>),
                        ![a].pc = @ + 1]
    /\ UNCHANGED << share_info, ec >>
    /\ EcRest

\* outb(value, EC_DATA) of ec_io_do: the EC takes the byte; after a failed
\* wait it may or may not
EcOutbValue(a) ==
    /\ AtStep(a, "outb_value")
    /\ io' = [io EXCEPT ![a].late = LateAccess(io[a]),
                        ![a].sent = Append(@, <<EC_DATA, io[a].value>>),
                        ![a].pc = @ + 1]
    /\ \/ ec' = [ec EXCEPT !.fan_duty_raw = io[a].value]
       \/ io[a].timed_out /\ ec' = ec
    /\ UNCHANGED share_info
    /\ EcRest

\* inb(EC_DATA) of ec_io_read: the register asked for, or after a failed
\* wait whatever the data port holds
EcInb(a) ==
    /\ AtStep(a, "inb")
    /\ \E byte \in IF io[a].timed_out THEN {ec.cpu, 255} ELSE {ec.cpu} :
          io' = [io EXCEPT ![a].value = byte,
                           ![a].late = LateAccess(io[a]),
                           ![a].pc = @ + 1]
    /\ UNCHANGED << share_info, ec >>
    /\ EcRest

\* the return of ec_io_read (the byte, stored by the control loop as
\* share_info->cpu_temp) or of ec_io_do (the result of its last wait)
EcIoReturn(a) ==
    /\ InTransaction(io[a])
    /\ io[a].pc > Len(TxnSteps(io[a]))
    /\ io' = [io EXCEPT ![a].done = TRUE,
                        ![a].result = IF io[a].kind = "do" THEN io[a].last_wait
                                      ELSE EXIT_SUCCESS]
    /\ share_info' = IF a = "worker" /\ io[a].kind = "read"
                     THEN [share_info EXCEPT !.cpu_temp = io[a].value]
                     ELSE share_info
    /\ UNCHANGED ec
    /\ EcRest

\* the daemon serving: control loop and socket server
Next ==
    \/ InitSocketServer
    \/ InitSocketServerFails
    \/ LoopTest
    \/ ProbeSysfs
    \/ StoreCpuTemp
    \/ StoreGpuTemp
    \/ StoreFanDuty
    \/ StoreFanRpms
    \/ CheckAutoDuty
    \/ AdjustAndWrite
    \/ Sleep
    \/ AcceptRequest
    \/ AcceptEmpty
    \/ HandlerStep
    \/ CloseClient

Spec == Init /\ [][Next]_vars

\* the daemon serving and shutting down: signals arrive, the main loop
\* ends, stop_socket_server runs
NextShutdown ==
    \/ Next
    \/ DeliverSignal
    \/ StopSocketServer
    \/ JoinAndUnlink
    \/ ServerThreadEnds

SpecShutdown == Init /\ [][NextShutdown]_vars

\* the daemon serving arbitrary request frames
NextIpc ==
    \/ Next
    \/ AcceptAnyFrame

SpecIpc == Init /\ [][NextIpc]_vars

(***************************************************************************)
(* The control loop on direct I/O while a client switches the mode.        *)
(***************************************************************************)
\* the requests that change the mode
ModeFrames == { W_SET_AUTO, W_SET_FAN \o <<" ","8","0">> }

\* the sysfs image is not there: the readings come from the ec_query_*
\* calls of lines 330-336
ProbeDirect == ProbeWith("unavailable") /\ UNCHANGED bulk

AcceptModeRequest == Accept(ModeFrames)

NextMode ==
    \/ InitSocketServer
    \/ LoopTest
    \/ ProbeDirect
    \/ StoreCpuTemp
    \/ StoreGpuTemp
    \/ StoreFanDuty
    \/ StoreFanRpms
    \/ CheckAutoDuty
    \/ AdjustAndWrite
    \/ Sleep
    \/ AcceptModeRequest
    \/ HandlerStep
    \/ CloseClient

SpecMode == Init /\ [][NextMode]_vars

(***************************************************************************)
(* The socket server on its own: one client sends its requests one after   *)
(* the other, and nothing else touches share_info in between.              *)
(***************************************************************************)
RepeatFrames ==
    { W_SET_AUTO, W_SET_FAN \o <<" ","8","0">>, W_SET_FAN \o <<" ","5","0">>,
      W_SET_FAN \o <<" ","1">>, W_GET_FAN }

\* accept() and recv() of the next request of the client
AcceptInARow ==
    /\ ipcPc = "select"
    /\ socket_running # 0
    /\ server_sock = "open"
    /\ served < MaxRepeats
    /\ \E command \in RepeatFrames :
          /\ ipc' = [req |-> command,
                     cmd |-> handle_client_command(command),
                     step |-> 1,
                     resp |-> NoResponse,
                     pre |-> [auto_duty |-> share_info.auto_duty,
                              manual_next_fan_duty |-> share_info.manual_next_fan_duty,
                              target |-> target_temperature]]
          /\ again' = [last |-> again.req, req |-> command, left |-> share_info]
    /\ served' = served + 1
    /\ ipcPc' = "handle"
    /\ UNCHANGED << share_info, running, target_temperature, cfg, pid, adaptive,
                    handlers, socket_running, server_sock, socket_file, mainPc,
                    worker, ec, tick, delivered, ecWrite, tickStart,
                    sigSeen, io, bulk, inst, activity, load >>

NextRepeat ==
    \/ InitSocketServer
    \/ AcceptInARow
    \/ HandlerStep
    \/ CloseClient

SpecRepeat == Init /\ [][NextRepeat]_vars

(***************************************************************************)
(* The socket server with failing connections: accept() fails, or recv()   *)
(* fails or delivers nothing, between the requests of the clients.         *)
(***************************************************************************)
\* the ways a connection ends before a request is read: accept() < 0,
\* recv() < 0, recv() = 0
DropCauses == {"accept_failed", "recv_error", "recv_empty"}

\* the entry of the request history for a connection dropped by cause
DropMark(cause) == <<cause>>

DropMarks == {DropMark(cause) : cause \in DropCauses}

AfterDropBreaks(cause) == "exited"

\* where the server thread goes on: "continue" after a failed accept, past
\* the "if (received > 0)" to close(client_sock) otherwise
AfterDrop(cause) == IF cause = "accept_failed" THEN "select" ELSE "close"

\* a connection that yields no request
DropConnection(cause) ==
    /\ ipcPc = "select"
    /\ socket_running # 0
    /\ server_sock = "open"
    /\ served < MaxRepeats
    /\ served' = served + 1
    /\ ipc' = IdleIpc
    /\ again' = [last |-> again.req, req |-> DropMark(cause), left |-> share_info]
    /\ ipcPc' = AfterDrop(cause)
    /\ UNCHANGED << share_info, running, target_temperature, cfg, pid, adaptive,
                    handlers, socket_running, server_sock, socket_file, mainPc,
                    worker, ec, tick, delivered, ecWrite, tickStart,
                    sigSeen, io, bulk, inst, activity, load >>

NextDrop ==
    \/ InitSocketServer
    \/ \E cause \in DropCauses : DropConnection(cause)
    \/ AcceptInARow
    \/ HandlerStep
    \/ CloseClient

SpecDrop == Init /\ [][NextDrop]_vars

(***************************************************************************)
(* The controller on its own: ec_auto_duty_adjust called with arbitrary    *)
(* readings, the target and the gains changing between calls.              *)
(***************************************************************************)
\* temperatures the EC may report (a byte of which 0..127 is meaningful)
\* and duties already in the snapshot
PidCpuTemps == {0, 65, 100, 127}
PidGpuTemps == {0, 90}
PidFanDuties == {0, 100}

\* targets the command line accepts (40..100)
PidTargets == {40, 65, 100}

\* gains at the upper corner of the tuner's ranges
CornerGains == [kp |-> 5000000, ki |-> 500000, kd |-> 2000000]

PidRest ==
    UNCHANGED << running, cfg, handlers, socket_running, server_sock,
                 socket_file, mainPc, ipcPc, ipc, ec, served, delivered,
                 ecWrite, tickStart, sigSeen, io, bulk, inst, activity, load, again >>

\* the snapshot the update reads, then ec_auto_duty_adjust(); its return
\* value and its clamped output are kept in worker
PidUpdateWith(r, cpu_temp, gpu_temp, fan_duty) ==
    /\ pid' = r.pid
    /\ adaptive' = r.adaptive
    /\ worker' = [worker EXCEPT !.next_duty = r.duty, !.output = r.output]
    /\ share_info' = [share_info EXCEPT !.cpu_temp = cpu_temp,
                                        !.gpu_temp = gpu_temp,
                                        !.fan_duty = fan_duty]

PidUpdate ==
    /\ tick < MaxUpdates
    /\ tick' = tick + 1
    /\ \E cpu_temp \in PidCpuTemps, gpu_temp \in PidGpuTemps,
          fan_duty \in PidFanDuties :
          \E r \in {ec_auto_duty_adjust(pid, adaptive, cpu_temp, gpu_temp,
                                         fan_duty, target_temperature)} :
              PidUpdateWith(r, cpu_temp, gpu_temp, fan_duty)
    /\ UNCHANGED target_temperature
    /\ PidRest

\* the target is changed between two updates
PidSetTarget ==
    /\ \E t \in PidTargets : target_temperature' = t
    /\ UNCHANGED << share_info, pid, adaptive, worker, tick >>
    /\ PidRest

\* the gains are changed between two updates
PidSetGains ==
    /\ pid' = [pid EXCEPT !.kp = CornerGains.kp, !.ki = CornerGains.ki,
                          !.kd = CornerGains.kd]
    /\ UNCHANGED << share_info, target_temperature, adaptive, worker, tick >>
    /\ PidRest

NextPid ==
    \/ PidUpdate
    \/ PidSetTarget
    \/ PidSetGains

SpecPid == Init /\ [][NextPid]_vars

(***************************************************************************)
(* The tuning pass of the indicator program (clevo-daemon-socket.c), whose *)
(* command line sets the initial gains.  The pass is applied to the        *)
(* history a tuning interval of readings leaves behind.                    *)
(***************************************************************************)
\* --pid-kp, --pid-ki, --pid-kd: atof() of the argument, any value
CommandLineGains ==
    { [kp |-> 2000000, ki |-> 100000, kd |-> 500000],
      [kp |-> 10000000, ki |-> 100000, kd |-> 500000],
      [kp |-> 100000, ki |-> 100000, kd |-> 500000],
      [kp |-> 2000000, ki |-> 1000000, kd |-> 5000000] }

InitTune ==
    /\ \E g \in CommandLineGains :
          pid = [InitPid EXCEPT !.kp = g.kp, !.ki = g.ki, !.kd = g.kd]
    /\ InitButGains

\* the readings of one tuning interval: steady at the target, steady above
\* it, swinging around it
TuneReadings == { <<65, 65>>, <<90, 90>>, <<40, 90>> }
TuneFanDuties == {20, 100}

\* the history after n more readings alternating between x and y, the
\* last one y
RECURSIVE FillHistory(_, _, _, _)
FillHistory(a, n, x, y) ==
    IF n = 0 THEN a
    ELSE FillHistory(adaptive_pid_add_temp_history(a, IF n % 2 = 0 THEN x ELSE y),
                     n - 1, x, y)

\* step_multiplier in tenths: 3.0 while rapid learning lasts (less than
\* adaptive_rapid_learning_max = 10 passes), 0.3 in steady state (at least
\* adaptive_steady_state_cycles_required = 5 stable passes), else 1.0
StepMultiplier(a) ==
    IF a.rapid_learning_cycles < 10 THEN 30
    ELSE IF a.consecutive_stable_cycles >= 5 THEN 3
    ELSE 10

\* score_change < -0.05 and not > 0.05
Degraded(score_change) == ~(score_change > 50000) /\ score_change < 0 - 50000

\* current_*_step: the step times the multiplier, reversed when the score
\* got worse
CurrentStep(step, multiplier, degraded) ==
    IF degraded THEN Reverse(CDiv(step * multiplier, 10))
    ELSE CDiv(step * multiplier, 10)

\* lines 1619-1644: Kp is stepped and limited only when the score is below
\* the target performance; Ki and Kd are stepped and always limited
TunedGains(p, kp_step, ki_step, kd_step, current_score, oscillation, error) ==
    [p EXCEPT !.kp = IF current_score < cfg.adaptive_target_performance
                     THEN Clamp(p.kp + kp_step, 500000, 5000000)
                     ELSE p.kp,
              !.ki = Clamp(IF oscillation > 3000 THEN p.ki - ki_step
                           ELSE IF error > 5 THEN p.ki + ki_step
                           ELSE p.ki, 10000, 500000),
              !.kd = Clamp(IF oscillation > 3000 THEN p.kd + kd_step ELSE p.kd,
                           100000, 2000000)]

\* the bookkeeping of the pass
TunedAdaptive(a, current_score, score_change) ==
    [a EXCEPT !.consecutive_stable_cycles =
                  IF Abs(score_change) < 50000 THEN @ + 1 ELSE 0,
              !.prev_score = current_score,
              !.performance_score = current_score,
              !.learning_cycles = @ + 1,
              !.rapid_learning_cycles = IF @ < 10 THEN @ + 1 ELSE @]

indicator_tune_parameters(p, a, current_score, oscillation, error) ==
    [pid |-> TunedGains(p,
                        CurrentStep(a.kp_step, StepMultiplier(a),
                                    Degraded(current_score - a.prev_score)),
                        CurrentStep(a.ki_step, StepMultiplier(a),
                                    Degraded(current_score - a.prev_score)),
                        CurrentStep(a.kd_step, StepMultiplier(a),
                                    Degraded(current_score - a.prev_score)),
                        current_score, oscillation, error),
     adaptive |-> TunedAdaptive(a, current_score, current_score - a.prev_score)]

TuneRest ==
    UNCHANGED << running, target_temperature, cfg, handlers, socket_running,
                 server_sock, socket_file, mainPc, worker, ipcPc, ipc, ec,
                 served, delivered, ecWrite, tickStart, sigSeen, io, bulk,
                 inst, activity, load, again >>

\* one tuning interval goes by with the readings rd and the duty fan_duty,
\* and the pass that is due at its end is made (lines 911-919)
TuningPass ==
    /\ tick < MaxUpdates
    /\ tick' = tick + 1
    /\ \E rd \in TuneReadings, fan_duty \in TuneFanDuties :
          \E h \in {FillHistory(adaptive, cfg.adaptive_tuning_interval,
                                 rd[1], rd[2])} :
              \E r \in {indicator_tune_parameters(
                            pid, h,
                            adaptive_pid_calculate_performance_score(
                                h, rd[2], share_info.gpu_temp, fan_duty,
                                target_temperature),
                            adaptive_pid_calculate_oscillation(h),
                            AbsError(rd[2], share_info.gpu_temp,
                                     target_temperature))} :
                  /\ pid' = r.pid
                  /\ adaptive' = r.adaptive
                  /\ share_info' = [share_info EXCEPT !.cpu_temp = rd[2],
                                                      !.fan_duty = fan_duty]
    /\ TuneRest

NextTune == TuningPass

SpecTune == InitTune /\ [][NextTune]_vars

(***************************************************************************)
(* The control loop with readings that hardly change, next to the          *)
(* activity detector as the documentation describes it.                    *)
(***************************************************************************)
\* a change of the temperature by 2 degrees or of the duty by 5 points is
\* activity
ActivityDetected(act, temp_now, duty_now) ==
    \/ Abs(temp_now - act.temp_prev) >= 2
    \/ Abs(duty_now - act.duty_prev) >= 5

IdleCycles(act, temp_now, duty_now) ==
    IF ActivityDetected(act, temp_now, duty_now) THEN 0
    ELSE act.consecutive_idle_cycles + 1

\* no activity for more than 300 seconds (ticks are 2 seconds apart), or 5
\* idle cycles in a row
ShouldNotLearn(idle_cycles) == idle_cycles * 2 > 300 \/ idle_cycles >= 5

\* the detector fed with one sample, before a tick whose tuning pass is
\* due or not and which starts with the gains p
ActivityStep(act, temp_now, duty_now, pass_due, p) ==
    [temp_prev |-> temp_now, duty_prev |-> duty_now,
     consecutive_idle_cycles |-> IdleCycles(act, temp_now, duty_now),
     learning_inhibited |-> ShouldNotLearn(IdleCycles(act, temp_now, duty_now)),
     pass_due |-> pass_due,
     gains |-> [kp |-> p.kp, ki |-> p.ki, kd |-> p.kd]]

\* line 426, after the increment of line 423
PassDue(a) ==
    /\ cfg.adaptive_pid_enabled # 0
    /\ a.cycle_count + 1 >= cfg.adaptive_tuning_interval

\* line 421: the only condition under which the daemon leaves the tuner
\* out
TuningOff == cfg.adaptive_pid_enabled = 0

\* clevo-daemon -A 10: PID and tuner on, a pass every 10 cycles
InitIdle ==
    /\ pid = InitPid
    /\ cfg = [InitCfg(1) EXCEPT !.adaptive_tuning_interval = 10]
    /\ InitButOptions

\* readings of an idle machine: GPU 45, duty 20, CPU 45 or a degree more
\* or three
IdleCpuTemps == {45, 46, 48}

IdleRest ==
    UNCHANGED << running, target_temperature, cfg, handlers, socket_running,
                 server_sock, socket_file, mainPc, ipcPc, ipc, ec, served,
                 delivered, ecWrite, tickStart, sigSeen, io, bulk, inst, load, again >>

\* one tick in auto mode: the sample is stored and ec_auto_duty_adjust()
\* runs
IdleTick ==
    /\ tick < MaxIdleTicks
    /\ tick' = tick + 1
    /\ \E cpu_temp \in IdleCpuTemps :
          \E r \in {ec_auto_duty_adjust(pid, adaptive, cpu_temp, 45, 20,
                                         target_temperature)} :
              /\ PidUpdateWith(r, cpu_temp, 45, 20)
              /\ activity' = ActivityStep(activity, cpu_temp, 20,
                                          PassDue(adaptive), pid)
    /\ IdleRest

NextIdle == IdleTick

SpecIdle == InitIdle /\ [][NextIdle]_vars

(***************************************************************************)
(* The control loop through a step of the load: readings at 45 until the   *)
(* controller has settled, then at 85.                                     *)
(***************************************************************************)
\* clevo-daemon with the tuner on (the default) or off (-a 0)
InitStep ==
    /\ pid = InitPid
    /\ \E a \in {0, 1} : cfg = [InitCfg(1) EXCEPT !.adaptive_pid_enabled = a]
    /\ InitButOptions

\* the duty register read back after the write of the tick before (no
\* write is made for duty 0)
DutyReadBack ==
    IF worker.next_duty = 0 THEN share_info.fan_duty
    ELSE calculate_fan_duty(FanDutyByte(worker.next_duty))

StepRest ==
    UNCHANGED << running, target_temperature, cfg, handlers, socket_running,
                 server_sock, socket_file, mainPc, ipcPc, ipc, ec, served,
                 delivered, ecWrite, tickStart, sigSeen, io, bulk, inst,
                 activity, again >>

\* one tick in auto mode with the temperature temp on both sensors
StepTick(temp) ==
    /\ tick < MaxStepTicks
    /\ tick' = tick + 1
    /\ \E r \in {ec_auto_duty_adjust(pid, adaptive, temp, temp, DutyReadBack,
                                       target_temperature)} :
          PidUpdateWith(r, temp, temp, DutyReadBack)
    /\ StepRest

\* a tick of the long run at 45
TickBeforeStep ==
    /\ ~load.on
    /\ StepTick(45)
    /\ UNCHANGED load

\* a tick at 85, the first one once the integral has settled at its limit
TickAfterStep ==
    /\ load.on \/ pid.integral = 0 - 100
    /\ StepTick(85)
    /\ load' = [on |-> TRUE, since |-> load.since + 1,
                prev_duty |-> worker.next_duty]

NextStep ==
    \/ TickBeforeStep
    \/ TickAfterStep

SpecStep == InitStep /\ [][NextStep]_vars

(***************************************************************************)
(* The tuner's schedule: ticks in auto mode with the PID controller and    *)
(* the tuner on, for several values of -A.                                 *)
(***************************************************************************)
\* case 'A': atoi(optarg), then the limits 10 and 300
parse_tuning_interval(n) == IF n < 10 THEN 10 ELSE IF n > 300 THEN 300 ELSE n

\* the values given to -A
IntervalOptions == {5, 10, 12, 30, 400}

InitCycle ==
    /\ pid = InitPid
    /\ \E n \in IntervalOptions :
          cfg = [InitCfg(1) EXCEPT
                    !.adaptive_tuning_interval = parse_tuning_interval(n)]
    /\ InitButOptions

\* the readings of a tick: the load varies over the first ticks and is
\* steady at the target afterwards
CycleTemps == IF tick < MaxVariedTicks THEN {45, 85} ELSE {65}

\* one tick in auto mode
CycleTick ==
    /\ tick < MaxCycleTicks
    /\ tick' = tick + 1
    /\ \E temp \in CycleTemps :
          \E r \in {ec_auto_duty_adjust(pid, adaptive, temp, temp, DutyReadBack,
                                         target_temperature)} :
              PidUpdateWith(r, temp, temp, DutyReadBack)
    /\ UNCHANGED load
    /\ StepRest

NextCycle == CycleTick

SpecCycle == InitCycle /\ [][NextCycle]_vars

(***************************************************************************)
(* The indicator (clevo-daemon-socket.c): the worker process running       *)
(* main_ec_worker and the UI process running the menu callback             *)
(* ui_command_set_fan, both on the shared share_info.  mainPc is the       *)
(* worker's position; ipcPc and ipc are the position and the locals of the *)
(* UI process, served the number of menu commands taken.                   *)
(***************************************************************************)
\* menu commands in a run
MaxClicks == 2

\* the menu entries tried: "Set FAN to AUTO" and "Set FAN to 60%"
MenuDuties == {0, 60}

\* the UI process between two commands; back is history: the mode has gone
\* from Manual to Auto and the worker has not adjusted since
IdleUi == [arg |-> 0, back |-> FALSE]

\* main_init_share(), the fork, and the worker at its loop test
InitUi ==
    /\ pid = InitPid
    /\ \E pe \in {0, 1} : cfg = InitCfg(pe)
    /\ share_info = daemon_init_share
    /\ running = 1
    /\ target_temperature = 65
    /\ activity = NoActivity
    /\ load = NoLoad
    /\ again = NoRepeat
    /\ adaptive = InitAdaptive
    /\ handlers = signal_term("daemon_on_sigterm")
    /\ socket_running = 0
    /\ server_sock = "none"
    /\ socket_file = FALSE
    /\ mainPc = "loop"
    /\ worker = IdleWorker
    /\ ipcPc = "ui_idle"
    /\ ipc = IdleUi
    /\ ec = [cpu |-> 0, gpu |-> 0, fan_duty_raw |-> 51, rpm_hi |-> 0, rpm_lo |-> 0]
    /\ tick = 0
    /\ served = 0
    /\ delivered = 0
    /\ ecWrite = [count |-> 0, duty |-> 0, prev_duty |-> 0, auto_duty |-> 1,
                  manual_next_fan_duty |-> 0]
    /\ tickStart = [auto_duty |-> 1, manual_next_fan_duty |-> 0, ipc_idle |-> TRUE]
    /\ sigSeen = "none"
    /\ io = [a \in Actors |-> IdleTxn]
    /\ bulk = NoBulkRead
    /\ inst = [i \in Instances |-> NotStarted]

UiRest ==
    UNCHANGED << running, target_temperature, cfg, handlers, socket_running,
                 server_sock, socket_file, delivered, tickStart, sigSeen, io,
                 bulk, inst, activity, load, again >>

\* "while (share_info->exit == 0)": a tick of main_ec_worker begins
WorkerTickBegins ==
    /\ mainPc = "loop"
    /\ share_info.exit = 0
    /\ tick < MaxTicks
    /\ tick' = tick + 1
    /\ mainPc' = "manual"
    /\ UNCHANGED << share_info, pid, adaptive, worker, ipcPc, ipc, ec, served,
                    ecWrite >>
    /\ UiRest

\* lines 642-648: a manual duty that is set and differs from the one
\* written last is written and recorded
ManualWrite ==
    /\ mainPc = "manual"
    /\ IF share_info.manual_next_fan_duty # 0
          /\ share_info.manual_next_fan_duty # share_info.manual_prev_fan_duty
       THEN /\ \E ok \in BOOLEAN :
                  ec' = IF ok /\ ~FanDutyRejected(share_info.manual_next_fan_duty)
                        THEN [ec EXCEPT !.fan_duty_raw =
                                 FanDutyByte(share_info.manual_next_fan_duty)]
                        ELSE ec
            /\ ecWrite' = [count |-> IF ecWrite.count < 2
                                     THEN ecWrite.count + 1 ELSE 2,
                           duty |-> share_info.manual_next_fan_duty,
                           prev_duty |-> ecWrite.duty,
                           auto_duty |-> share_info.auto_duty,
                           manual_next_fan_duty |->
                               share_info.manual_next_fan_duty]
            /\ share_info' = [share_info EXCEPT !.manual_prev_fan_duty =
                                                    share_info.manual_next_fan_duty]
       ELSE UNCHANGED << ec, ecWrite, share_info >>
    /\ mainPc' = "read"
    /\ UNCHANGED << pid, adaptive, worker, ipcPc, ipc, tick, served >>
    /\ UiRest

\* lines 650-688: the sensors show this tick's readings and the four fields
\* of the snapshot are stored, from the sysfs image or by direct I/O
ReadEc ==
    /\ mainPc = "read"
    /\ \E s \in Samples :
          /\ ec' = [ec EXCEPT !.cpu = s.cpu, !.gpu = s.gpu,
                              !.rpm_hi = s.rpm_hi, !.rpm_lo = s.rpm_lo]
          /\ share_info' = [share_info EXCEPT
                                !.cpu_temp = s.cpu,
                                !.gpu_temp = s.gpu,
                                !.fan_duty = calculate_fan_duty(ec.fan_duty_raw),
                                !.fan_rpms = calculate_fan_rpms(s.rpm_hi, s.rpm_lo)]
    /\ mainPc' = "check_auto"
    /\ UNCHANGED << pid, adaptive, worker, ipcPc, ipc, tick, served, ecWrite >>
    /\ UiRest

\* lines 691-701: the duty is computed, written when it is not 0 and
\* differs from auto_duty_val, and recorded
WorkerAdjustAndWrite ==
    /\ mainPc = "adjust"
    /\ \E r \in {ec_auto_duty_adjust(pid, adaptive, share_info.cpu_temp,
                                      share_info.gpu_temp, share_info.fan_duty,
                                      target_temperature)} :
          WriteAutoDuty(r, AutoWriteDue(r.duty, share_info.auto_duty_val))
    /\ mainPc' = "sleep"
    /\ ipc' = [ipc EXCEPT !.back = FALSE]
    /\ UNCHANGED << ipcPc, tick, served >>
    /\ UiRest

\* a menu entry is chosen: ui_command_set_fan(fan_duty) is entered
UiCommand ==
    /\ ipcPc = "ui_idle"
    /\ served < MaxClicks
    /\ served' = served + 1
    /\ \E fan_duty \in MenuDuties : ipc' = [ipc EXCEPT !.arg = fan_duty]
    /\ ipcPc' = "ui_auto_duty"
    /\ UNCHANGED << share_info, pid, adaptive, mainPc, worker, ec, tick, ecWrite >>
    /\ UiRest

\* lines 823 and 830: share_info->auto_duty = 1 for AUTO, 0 for a duty
UiStoreAutoDuty ==
    /\ ipcPc = "ui_auto_duty"
    /\ share_info' = [share_info EXCEPT !.auto_duty = IF ipc.arg = 0 THEN 1 ELSE 0]
    /\ ipc' = [ipc EXCEPT !.back = @ \/ (ipc.arg = 0 /\ share_info.auto_duty = 0)]
    /\ ipcPc' = "ui_auto_duty_val"
    /\ UNCHANGED << pid, adaptive, mainPc, worker, ec, tick, served, ecWrite >>
    /\ UiRest

\* lines 824 and 831: share_info->auto_duty_val = 0
UiStoreAutoDutyVal ==
    /\ ipcPc = "ui_auto_duty_val"
    /\ share_info' = [share_info EXCEPT !.auto_duty_val = 0]
    /\ ipcPc' = "ui_manual"
    /\ UNCHANGED << pid, adaptive, mainPc, worker, ipc, ec, tick, served, ecWrite >>
    /\ UiRest

\* lines 825 and 832: share_info->manual_next_fan_duty = the duty, 0 for
\* AUTO.  pid_reset() follows in the UI process, on that process's own
\* copy of the controller state.
UiStoreManualDuty ==
    /\ ipcPc = "ui_manual"
    /\ share_info' = [share_info EXCEPT !.manual_next_fan_duty = ipc.arg]
    /\ ipcPc' = "ui_idle"
    /\ UNCHANGED << pid, adaptive, mainPc, worker, ipc, ec, tick, served, ecWrite >>
    /\ UiRest

NextUi ==
    \/ WorkerTickBegins
    \/ ManualWrite
    \/ ReadEc
    \/ CheckAutoDuty
    \/ WorkerAdjustAndWrite
    \/ Sleep
    \/ UiCommand
    \/ UiStoreAutoDuty
    \/ UiStoreAutoDutyVal
    \/ UiStoreManualDuty

SpecUi == InitUi /\ [][NextUi]_vars

(***************************************************************************)
(* ec_auto_duty_adjust called as the tests call it: the fan at 60, the     *)
(* default target, the readings set before each call.                      *)
(***************************************************************************)
\* the readings <<cpu, gpu>> of test_auto_duty_adjust, and two more
MockTemps == { <<40, 45>>, <<70, 75>>, <<65, 65>>, <<90, 95>> }

\* mock_fan_duty
MockFanDuty == 60

\* the controller as the options -p and -a leave it
InitAdjust ==
    /\ pid = InitPid
    /\ \E pe \in {0, 1}, a \in {0, 1} :
          cfg = [InitCfg(pe) EXCEPT !.adaptive_pid_enabled = a]
    /\ InitButOptions

\* test_set_mock_temps(cpu, gpu), then ec_auto_duty_adjust()
AdjustCall ==
    /\ tick < MaxUpdates
    /\ tick' = tick + 1
    /\ \E rd \in MockTemps :
          \E r \in {ec_auto_duty_adjust(pid, adaptive, rd[1], rd[2],
                                         MockFanDuty, target_temperature)} :
              PidUpdateWith(r, rd[1], rd[2], MockFanDuty)
    /\ UNCHANGED target_temperature
    /\ PidRest

NextAdjust == AdjustCall

SpecAdjust == InitAdjust /\ [][NextAdjust]_vars

(***************************************************************************)
(* main() from the command line to the mode it runs in: the options -t    *)
(* and -D, the positional argument, and the branch of lines 186-265.       *)
(* inst[1] is the process; an argument of <<>> stands for one not given.   *)
(***************************************************************************)
\* atoi(): the leading integer of the string, 0 when there is none
atoi(s) == ScanInt(s, 1).val

\* the arguments of -t and the positional arguments tried
TargetOptions == { <<>>, <<"5","5">>, <<"3","0">> }
PositionalArgs ==
    { <<>>, <<"0">>, <<"1">>, <<"3","9">>, <<"4","0">>, <<"5","5">>,
      <<"1","0","0">>, <<"1","0","1">>, <<"a","u","t","o">> }

MainRest ==
    UNCHANGED << share_info, running, cfg, pid, adaptive, handlers,
                 socket_running, server_sock, socket_file, mainPc, worker,
                 ipcPc, ipc, ec, tick, served, delivered, ecWrite, tickStart,
                 sigSeen, io, bulk, activity, load, again >>

\* the process is started with its command line
ExecWith ==
    /\ inst[1].pc = "off"
    /\ \E t \in TargetOptions, D \in BOOLEAN, arg \in PositionalArgs :
          inst' = [inst EXCEPT ![1] =
                      [pc |-> "parse", count |-> 0, t |-> t, daemon_mode |-> D,
                       arg |-> arg, ran |-> "none", fan |-> 0,
                       status |-> EXIT_SUCCESS]]
    /\ UNCHANGED target_temperature
    /\ MainRest

\* case 't' of parse_command_line: a target outside 40..100 ends the
\* process
ParseCommandLine ==
    /\ inst[1].pc = "parse"
    /\ IF inst[1].t = <<>>
       THEN /\ inst' = [inst EXCEPT ![1].pc = "startup"]
            /\ UNCHANGED target_temperature
       ELSE /\ target_temperature' = atoi(inst[1].t)
            /\ inst' = [inst EXCEPT
                           ![1].pc = IF atoi(inst[1].t) < 40 \/ atoi(inst[1].t) > 100
                                     THEN "exited" ELSE "startup",
                           ![1].status =
                               IF atoi(inst[1].t) < 40 \/ atoi(inst[1].t) > 100
                               THEN EXIT_FAILURE ELSE EXIT_SUCCESS]
    /\ MainRest

\* lines 169-184: the instance check, the privileges and ec_init; any of
\* them failing ends the process
Startup ==
    /\ inst[1].pc = "startup"
    /\ \E ok \in BOOLEAN :
          inst' = [inst EXCEPT ![1].pc = IF ok THEN "mode" ELSE "exited",
                               ![1].status = IF ok THEN EXIT_SUCCESS
                                             ELSE EXIT_FAILURE]
    /\ UNCHANGED target_temperature
    /\ MainRest

\* lines 186-265: the mode main() runs in, and the target of the daemon
main_mode(arg, daemon_mode, target) ==
    IF arg = <<>> \/ daemon_mode
    THEN [ran |-> "daemon", target |-> target, fan |-> 0]
    ELSE IF atoi(arg) >= 1 /\ atoi(arg) <= 100
    THEN [ran |-> "cli", target |-> target, fan |-> atoi(arg)]
    ELSE IF atoi(arg) >= 40 /\ atoi(arg) <= 100
    THEN [ran |-> "daemon", target |-> atoi(arg), fan |-> 0]
    ELSE [ran |-> "invalid", target |-> target, fan |-> 0]

\* the branch is taken: the daemon goes on to its loop unless
\* init_socket_server fails, daemon_test_fan sets the fan and returns, an
\* invalid argument is a failure exit
ChooseMode ==
    /\ inst[1].pc = "mode"
    /\ \E m \in {main_mode(inst[1].arg, inst[1].daemon_mode, target_temperature)},
          ok \in BOOLEAN :
          /\ target_temperature' = m.target
          /\ inst' = [inst EXCEPT
                         ![1].ran = m.ran,
                         ![1].fan = m.fan,
                         ![1].pc = IF m.ran = "daemon" /\ ok THEN "loop"
                                   ELSE "exited",
                         ![1].status = IF m.ran = "cli" \/ (m.ran = "daemon" /\ ok)
                                       THEN EXIT_SUCCESS ELSE EXIT_FAILURE]
    /\ MainRest

\* the loop ends on a signal, the socket server is stopped and main returns
MainReturns ==
    /\ inst[1].pc = "loop"
    /\ inst' = [inst EXCEPT ![1].pc = "exited"]
    /\ UNCHANGED target_temperature
    /\ MainRest

NextMain ==
    \/ ExecWith
    \/ ParseCommandLine
    \/ Startup
    \/ ChooseMode
    \/ MainReturns

SpecMain == Init /\ [][NextMain]_vars

(***************************************************************************)
(* Start-up of the processes run from the daemon's executable: main()      *)
(* lines 162-215.  Only inst changes.                                      *)
(***************************************************************************)
StartRest ==
    UNCHANGED << share_info, running, target_temperature, cfg, pid, adaptive,
                 handlers, socket_running, server_sock, socket_file, mainPc,
                 worker, ipcPc, ipc, ec, tick, served, delivered, ecWrite,
                 tickStart, sigSeen, io, bulk, activity, load, again >>

\* the processes /proc lists with comm equal to NAME: every process that
\* has been exec'd from the executable and has not exited
Listed == {j \in Instances : inst[j].pc # "off"}

\* check_proc_instances(NAME): 0 when /proc cannot be opened (line 550),
\* else the number of listed processes, the caller included
check_proc_instances(proc_readable) ==
    IF proc_readable THEN Cardinality(Listed) ELSE 0

\* the executable is run
Exec(i) ==
    /\ inst[i].pc = "off"
    /\ inst' = [inst EXCEPT ![i] = [pc |-> "check", count |-> 0]]
    /\ StartRest

\* lines 169-172: the instance check; more than one instance is a failure
\* exit
CheckInstances(i) ==
    /\ inst[i].pc = "check"
    /\ \E proc_readable \in BOOLEAN :
          inst' = [inst EXCEPT ![i] =
                      [pc |-> IF check_proc_instances(proc_readable) > 1
                              THEN "off" ELSE "privileges",
                       count |-> check_proc_instances(proc_readable)]]
    /\ StartRest

\* lines 175-178: setup_privileges(); failure is a failure exit
SetupPrivileges(i) ==
    /\ inst[i].pc = "privileges"
    /\ \E ok \in BOOLEAN :
          inst' = [inst EXCEPT ![i].pc = IF ok THEN "ec_init" ELSE "off"]
    /\ StartRest

\* lines 181-184: ec_init(), the first use of the EC ports
EcInit(i) ==
    /\ inst[i].pc = "ec_init"
    /\ \E ok \in BOOLEAN :
          inst' = [inst EXCEPT ![i].pc = IF ok THEN "socket" ELSE "off"]
    /\ StartRest

\* lines 195-207: the socket server is created; the control loop follows
StartServing(i) ==
    /\ inst[i].pc = "socket"
    /\ \E ok \in BOOLEAN :
          inst' = [inst EXCEPT ![i].pc = IF ok THEN "loop" ELSE "off"]
    /\ StartRest

\* lines 212-220: the loop ends on a signal and the process exits
LoopEnds(i) ==
    /\ inst[i].pc = "loop"
    /\ inst' = [inst EXCEPT ![i].pc = "off"]
    /\ StartRest

NextStart ==
    \/ \E i \in Instances : Exec(i)
    \/ \E i \in Instances : CheckInstances(i)
    \/ \E i \in Instances : SetupPrivileges(i)
    \/ \E i \in Instances : EcInit(i)
    \/ \E i \in Instances : StartServing(i)
    \/ \E i \in Instances : LoopEnds(i)

SpecStart == Init /\ [][NextStart]_vars

\* the control loop alone, with the history of its bulk reads
NextLoop ==
    \/ InitSocketServer
    \/ InitSocketServerFails
    \/ LoopTest
    \/ ProbeSysfsRecorded
    \/ StoreCpuTemp
    \/ StoreGpuTemp
    \/ StoreFanDuty
    \/ StoreFanRpms
    \/ CheckAutoDuty
    \/ AdjustAndWrite
    \/ Sleep

SpecLoop == Init /\ [][NextLoop]_vars

\* the EC port transactions of the threads of control that may start them
NextEc ==
    \/ \E a \in Actors : BeginRead(a)
    \/ BeginWrite
    \/ \E a \in Actors : EcIoWait(a)
    \/ \E a \in Actors : EcOutb(a)
    \/ \E a \in Actors : EcOutbValue(a)
    \/ \E a \in Actors : EcInb(a)
    \/ \E a \in Actors : EcIoReturn(a)

SpecEc == Init /\ [][NextEc]_vars

(***************************************************************************)
(* The fan queries on their own: ec_query_fan_duty and ec_query_fan_rpms   *)
(* with the registers showing any byte.                                    *)
(***************************************************************************)
Bytes == 0..255

QueryRest ==
    UNCHANGED << running, target_temperature, cfg, pid, adaptive, handlers,
                 socket_running, server_sock, socket_file, mainPc, worker,
                 ipcPc, ipc, served, delivered, ecWrite, tickStart, sigSeen,
                 io, bulk, inst, activity, load, again >>

\* ec_query_fan_duty: the register shows raw_duty, the percentage is stored
QueryFanDuty ==
    /\ tick < MaxQueries
    /\ tick' = tick + 1
    /\ \E raw_duty \in Bytes :
          /\ ec' = [ec EXCEPT !.fan_duty_raw = raw_duty]
          /\ share_info' = [share_info EXCEPT
                                !.fan_duty = calculate_fan_duty(raw_duty)]
    /\ QueryRest

NextDuty == QueryFanDuty

SpecDuty == Init /\ [][NextDuty]_vars

\* the bytes a tachometer register may show at the next query: the one it
\* showed, or the next one up
NextByte(b) == {b, (b + 1) % 256}

\* ec_query_fan_rpms: the registers show raw_rpm_hi and raw_rpm_lo, the
\* speed is stored
QueryFanRpms ==
    /\ \E raw_rpm_hi \in NextByte(ec.rpm_hi), raw_rpm_lo \in NextByte(ec.rpm_lo) :
          /\ ec' = [ec EXCEPT !.rpm_hi = raw_rpm_hi, !.rpm_lo = raw_rpm_lo]
          /\ share_info' = [share_info EXCEPT
                                !.fan_rpms = calculate_fan_rpms(raw_rpm_hi,
                                                                raw_rpm_lo)]
    /\ UNCHANGED tick
    /\ QueryRest

NextRpms == QueryFanRpms

SpecRpms == Init /\ [][NextRpms]_vars

(***************************************************************************)
(* ec_write_fan_duty on its own: called with any argument, one port access *)
(* per step.                                                               *)
(***************************************************************************)
WritePcts == (0 - 1) .. 102 \cup {255, 256}

CallWriteFanDuty == WriteFanDuty(WritePcts)

\* the EC takes the byte of outb(value, EC_DATA); the fan register is left
\* out of the state, the bytes sent are kept in io
EcOutbValueSent ==
    /\ AtStep("worker", "outb_value")
    /\ io' = [io EXCEPT !["worker"].late = LateAccess(io["worker"]),
                        !["worker"].sent =
                            Append(@, <<EC_DATA, io["worker"].value>>),
                        !["worker"].pc = @ + 1]
    /\ UNCHANGED << share_info, ec >>
    /\ EcRest

NextWrite ==
    \/ CallWriteFanDuty
    \/ EcIoWait("worker")
    \/ EcOutb("worker")
    \/ EcOutbValueSent
    \/ EcIoReturn("worker")

SpecWrite == Init /\ [][NextWrite]_vars

(***************************************************************************)
(* Properties.                                                             *)
(***************************************************************************)
\* the handler in hand has sent its response
Responded == ipcPc = "close" /\ ipc.req # <<>>

\* C1: every fan-duty write sent to the EC while the mode is Manual
\* (share_info.auto_duty = 0 at the moment of the write) carries the manual
\* duty; no computed duty is written in Manual.
C1_ManualWritesCarryManualDuty ==
    (ecWrite.count > 0 /\ ecWrite.auto_duty = 0)
        => ecWrite.duty = ecWrite.manual_next_fan_duty

\* C2: a tick that began in Manual with manual duty n, the SET_FAN n
\* already answered, and that ends with mode and manual duty unchanged,
\* leaves n as the duty last written to the EC.
C2_ManualDutyWrittenNextTick ==
    ( /\ mainPc = "sleep"
      /\ tickStart.auto_duty = 0
      /\ tickStart.ipc_idle
      /\ tickStart.manual_next_fan_duty \in 1..100
      /\ share_info.auto_duty = 0
      /\ share_info.manual_next_fan_duty = tickStart.manual_next_fan_duty )
        => (ecWrite.count > 0 /\ ecWrite.duty = share_info.manual_next_fan_duty)

\* the controller is in the state pid_reset leaves behind: integral and
\* previous error 0, adaptive counters, scores and history cleared, step
\* sizes at their defaults
ControllerIsReset ==
    /\ pid = pid_reset(pid, adaptive).pid
    /\ adaptive = pid_reset(pid, adaptive).adaptive

\* C3: the step that changes the mode (Auto to Manual by SET_FAN, Manual
\* to Auto by SET_AUTO) leaves the PID integral and previous error at 0
\* and the adaptive state cleared.
C3_ModeChangeResetsController ==
    [][share_info'.auto_duty # share_info.auto_duty => ControllerIsReset']_vars

\* C4: once SIGTERM, SIGINT or SIGQUIT has been handled while the daemon
\* is in its control loop, the loop flag is cleared, so that the loop ends
\* after the current tick and stop_socket_server removes the socket file.
C4_SignalEndsControlLoop == sigSeen # "none" => running = 0

\* C5: after SET_TARGET_TEMP n is answered with "OK: Target temperature
\* set to n", the controller's target temperature is n.
C5_TargetTemperatureSet ==
    (Responded /\ ipc.resp.kind = "SET_TARGET_TEMP")
        => target_temperature = ipc.resp.n

\* the text of a frame without one terminating newline
Unterminated(frame) ==
    IF Len(frame) > 0 /\ frame[Len(frame)] = NL
    THEN SubSeq(frame, 1, Len(frame) - 1) ELSE frame

\* s is a non-empty run of decimal digits
IsNumber(s) == Len(s) > 0 /\ \A i \in 1..Len(s) : s[i] \in Digits

\* frame is "<word> <n>" with lo <= n <= hi
IsWordNumber(frame, word, lo, hi) ==
    /\ Len(frame) > Len(word) + 1
    /\ Take(frame, Len(word)) = word
    /\ frame[Len(word) + 1] = " "
    /\ IsNumber(Drop(frame, Len(word) + 2))
    /\ ScanDigits(frame, Len(word) + 2, 0) \in lo..hi

\* the request grammar of the command table: one of the six commands with
\* an in-range argument, ended by a newline or by the end of the frame
ValidRequest(frame) ==
    LET f == Unterminated(frame)
    IN  \/ f \in {W_STATUS, W_GET_TEMP, W_GET_FAN, W_SET_AUTO}
        \/ IsWordNumber(f, W_SET_FAN, 1, 100)
        \/ IsWordNumber(f, W_SET_TARGET_TEMP, 40, 100)

\* C6: a request outside the grammar (unknown command, malformed or
\* out-of-range argument) is answered with "ERROR:" and leaves the mode,
\* the manual duty and the target temperature as they were.
C6_InvalidRequestRefused ==
    (Responded /\ ~ValidRequest(ipc.req))
        => /\ ipc.resp.kind \in ErrorKinds
           /\ share_info.auto_duty = ipc.pre.auto_duty
           /\ share_info.manual_next_fan_duty = ipc.pre.manual_next_fan_duty
           /\ target_temperature = ipc.pre.target

\* C7: a valid request ended by a newline is handled as the same request
\* ended by the end of the frame: same branch, same argument.
C7_NewlineTerminatedSameCommand ==
    ( /\ Responded
      /\ ValidRequest(ipc.req)
      /\ ipc.req # Unterminated(ipc.req) )
        => /\ ipc.cmd = handle_client_command(Unterminated(ipc.req))
           /\ ipc.resp.kind = ipc.cmd.kind

\* C8: the snapshot values of one STATUS, GET_TEMP or GET_FAN response
\* were all stored by the same tick (responses that show a value from
\* before the first tick set aside).
C8_ResponseFromOneTick ==
    ( /\ Responded
      /\ ipc.resp.kind \in {"STATUS", "GET_TEMP", "GET_FAN"}
      /\ 0 \notin ipc.resp.stamps )
        => Cardinality(ipc.resp.stamps) = 1

\* C9: the mode a tick acts on is the mode in effect when the tick began.
C9_TickUsesModeAtTickStart ==
    mainPc \in {"adjust", "sleep"} => worker.mode = tickStart.auto_duty

\* C10: a tick whose computed duty equals the recorded auto_duty_val sends
\* no write, and two consecutive fan-duty writes never carry the same duty.
C10_WritesCoalesced ==
    /\ ( /\ mainPc = "sleep"
         /\ worker.mode = 1
         /\ worker.next_duty = worker.prev_auto_duty_val ) => ~worker.wrote
    /\ ecWrite.count >= 2 => ecWrite.duty # ecWrite.prev_duty

\* a tick in Auto that computed the duty written before and sent nothing
C10_Witness ==
    /\ mainPc = "sleep"
    /\ worker.mode = 1
    /\ worker.next_duty # 0
    /\ worker.next_duty = worker.prev_auto_duty_val
    /\ ~worker.wrote
    /\ ecWrite.count >= 1
    /\ ecWrite.duty = worker.next_duty

\* C11: a tick whose EC write failed leaves auto_duty_val (the last
\* written auto duty) at its previous value, so that the next tick tries
\* the write again.
C11_FailedWriteNotRecorded ==
    ( /\ mainPc = "sleep"
      /\ worker.wrote
      /\ worker.write_result # EXIT_SUCCESS )
        => share_info.auto_duty_val = worker.prev_auto_duty_val

\* C12: once a flag wait of an EC transaction has timed out, the
\* transaction makes no further port access (no command, address or value
\* byte, no read of the data port), returns failure, and the control loop
\* stores no reading from it.
C12_TimeoutStopsTransaction ==
    \A a \in Actors :
        io[a].timed_out =>
            /\ io[a].late = 0
            /\ io[a].done =>
                  /\ io[a].result = EXIT_FAILURE
                  /\ a = "worker" => share_info.cpu_temp = io[a].pre_cpu_temp

\* C13: once a bulk read of the EC image has failed or come back short, no
\* later tick tries the bulk read again: the port-level path is latched
\* for the rest of the process.
C13_BulkPathLatchedOff == ~bulk.retried

\* C16: after any sequence of PID updates, whatever the temperatures, the
\* target and the gains were, the integral accumulator is in [-100, +100].
C16_IntegralBounded == pid.integral >= 0 - 100 /\ pid.integral <= 100

\* an update has brought the sum of the errors beyond 100 and the
\* accumulator was cut back to the limit
C16_Witness ==
    /\ tick >= 2
    /\ cfg.pid_enabled # 0
    /\ pid.integral = 100
    /\ pid.prev_error = 127 - target_temperature

\* C17: every value returned by ec_auto_duty_adjust is an integer in
\* 0..100, and on the PID path the clamped output is in
\* [pid_output_min, pid_output_max].
C17_DutyAndOutputInRange ==
    /\ worker.next_duty \in 0..100
    /\ cfg.pid_enabled # 0 =>
          /\ worker.output >= cfg.pid_output_min
          /\ worker.output <= cfg.pid_output_max

\* a PID update whose proportional and integral terms alone exceed
\* pid_output_max has returned 100
C17_Witness ==
    /\ tick >= 1
    /\ cfg.pid_enabled # 0
    /\ pid.kp * pid.prev_error + pid.ki * pid.integral > cfg.pid_output_max
    /\ worker.output = cfg.pid_output_max
    /\ worker.next_duty = 100

\* C18: after every tuning pass, whatever the score was and whatever gains
\* the command line gave, Kp is in [0.5, 5.0], Ki in [0.01, 0.5] and Kd in
\* [0.1, 2.0].
C18_GainsInRangeAfterTuning ==
    adaptive.learning_cycles > 0 =>
        /\ pid.kp >= 500000 /\ pid.kp <= 5000000
        /\ pid.ki >= 10000 /\ pid.ki <= 500000
        /\ pid.kd >= 100000 /\ pid.kd <= 2000000

\* C19: while learning is inhibited (no temperature or duty change reaching
\* the activity thresholds for long enough), a tuning pass that is due
\* leaves Kp, Ki and Kd as they were.
C19_NoTuningWhileInhibited ==
    (activity.learning_inhibited /\ activity.pass_due) =>
        /\ pid.kp = activity.gains.kp
        /\ pid.ki = activity.gains.ki
        /\ pid.kd = activity.gains.kd

\* C20: after each tick learning is inhibited exactly when the idle time
\* has passed the stable period or the idle cycles have reached their
\* maximum, and it is no longer inhibited after a tick with activity.
C20_InhibitedExactlyWhenIdle ==
    tick > 0 => (TuningOff <=> activity.learning_inhibited)

\* C40: in the indicator, the first adjustment the worker makes after
\* ui_command_set_fan has taken the mode from Manual back to Auto writes its
\* duty to the EC whenever that duty is not 0.
C40_FirstAutoTickWrites ==
    [][(mainPc = "adjust" /\ mainPc' = "sleep" /\ ipc.back
           /\ worker'.next_duty # 0) => worker'.wrote]_vars

\* C39: a tick in Auto mode whose computed duty is 0 sends nothing to the
\* EC and leaves last_written_auto_duty as it was; every duty the control
\* loop sends is in 1..100, and last_written_auto_duty is always in 0..100.
C39_NoWriteOfZero ==
    [][/\ share_info'.auto_duty_val \in 0..100
       /\ ((mainPc = "adjust" /\ mainPc' = "sleep") =>
              /\ (worker'.next_duty = 0 =>
                     /\ ~worker'.wrote
                     /\ ecWrite' = ecWrite
                     /\ ec' = ec
                     /\ share_info'.auto_duty_val = share_info.auto_duty_val)
              /\ (worker'.wrote =>
                     /\ ecWrite'.duty \in 1..100
                     /\ ecWrite'.duty = worker'.next_duty
                     /\ share_info'.auto_duty_val = worker'.next_duty))]_vars

\* a tick in Auto mode has computed 0 while a duty sent earlier is on
\* record
C39_Witness ==
    /\ mainPc = "sleep"
    /\ worker.mode = 1
    /\ worker.next_duty = 0
    /\ ~worker.wrote
    /\ share_info.auto_duty_val \in 1..100

\* C38: with the fan at 60 and the target 65, a call of
\* ec_auto_duty_adjust made with the readings 40 and 45 returns at most 60,
\* and a call made with the readings 70 and 75 returns at least 70.
C38_AdjustDirection ==
    [][(tick' = tick + 1 /\ share_info'.fan_duty = 60
           /\ target_temperature = 65) =>
          /\ ((share_info'.cpu_temp = 40 /\ share_info'.gpu_temp = 45)
                  => worker'.next_duty <= 60)
          /\ ((share_info'.cpu_temp = 70 /\ share_info'.gpu_temp = 75)
                  => worker'.next_duty >= 70)]_vars

\* C37: a duty d in 1..100 written to the EC is read back as d: on the tick
\* after the control loop has sent d, the fan duty of the snapshot,
\* calculate_fan_duty of the byte stored for d, equals d.
C37_DutyRoundTrip ==
    [][(tick' = tick + 1 /\ worker.next_duty \in 1..100)
          => share_info'.fan_duty = worker.next_duty]_vars

\* C36: a daemon started with nothing but a positional argument whose
\* value v is in 40..100 runs in daemon mode with the target v.
C36_PositionalTarget ==
    (/\ inst[1].pc \in {"loop", "exited"}
     /\ inst[1].ran # "none"
     /\ inst[1].t = <<>>
     /\ ~inst[1].daemon_mode
     /\ inst[1].arg # <<>>
     /\ atoi(inst[1].arg) \in 40..100)
        => (inst[1].ran = "daemon" /\ target_temperature = atoi(inst[1].arg))

C34_PassFrame ==
    [][(adaptive'.learning_cycles = adaptive.learning_cycles + 1) =>
          /\ pid'.integral =
                 IntegralUpdate(pid.integral,
                                MAX(share_info'.cpu_temp, share_info'.gpu_temp)
                                    - target_temperature)
          /\ pid'.prev_error =
                 MAX(share_info'.cpu_temp, share_info'.gpu_temp)
                     - target_temperature
          /\ adaptive'.temp_history =
                 adaptive_pid_add_temp_history(
                     adaptive,
                     MAX(share_info'.cpu_temp, share_info'.gpu_temp)).temp_history
          /\ adaptive'.temp_history_size =
                 adaptive_pid_add_temp_history(
                     adaptive,
                     MAX(share_info'.cpu_temp, share_info'.gpu_temp)).temp_history_size
          /\ share_info'.auto_duty = share_info.auto_duty
          /\ share_info'.manual_next_fan_duty = share_info.manual_next_fan_duty
          /\ share_info'.auto_duty_val = share_info.auto_duty_val
          /\ ecWrite' = ecWrite
          /\ ec' = ec]_vars

\* a pass has changed Kp while the integral built up before it is in place
C34_Witness ==
    /\ adaptive.learning_cycles = 1
    /\ adaptive.cycle_count = 0
    /\ pid.kp # InitPid.kp
    /\ pid.integral = 0 - 60
    /\ adaptive.temp_history_size = 10

C32_StepMultiplierByPhase ==
    [][(adaptive'.learning_cycles = adaptive.learning_cycles + 1) =>
          /\ pid' = TunedGains(
                        pid,
                        CurrentStep(adaptive.kp_step, StepMultiplier(adaptive),
                                    Degraded(adaptive'.prev_score - adaptive.prev_score)),
                        CurrentStep(adaptive.ki_step, StepMultiplier(adaptive),
                                    Degraded(adaptive'.prev_score - adaptive.prev_score)),
                        CurrentStep(adaptive.kd_step, StepMultiplier(adaptive),
                                    Degraded(adaptive'.prev_score - adaptive.prev_score)),
                        adaptive'.prev_score,
                        adaptive_pid_calculate_oscillation(adaptive'),
                        AbsError(share_info'.cpu_temp, share_info'.gpu_temp,
                                 target_temperature))
          /\ adaptive.rapid_learning_cycles = adaptive.learning_cycles
          /\ adaptive'.rapid_learning_cycles =
                 IF adaptive.rapid_learning_cycles < 10
                 THEN adaptive.rapid_learning_cycles + 1
                 ELSE adaptive.rapid_learning_cycles
          /\ adaptive'.consecutive_stable_cycles =
                 IF Abs(adaptive'.prev_score - adaptive.prev_score) < 50000
                 THEN adaptive.consecutive_stable_cycles + 1
                 ELSE 0]_vars

\* C31: a tuning pass that sees a score change below -0.05 leaves the three
\* step sizes negated and scaled by 0.8, and any other pass leaves them as
\* they were, so that later passes go on from the reversed, damped steps.
C31_ReversalPersists ==
    [][(adaptive'.learning_cycles = adaptive.learning_cycles + 1) =>
          IF Degraded(adaptive'.prev_score - adaptive.prev_score)
          THEN /\ adaptive'.kp_step = Reverse(adaptive.kp_step)
               /\ adaptive'.ki_step = Reverse(adaptive.ki_step)
               /\ adaptive'.kd_step = Reverse(adaptive.kd_step)
          ELSE /\ adaptive'.kp_step = adaptive.kp_step
               /\ adaptive'.ki_step = adaptive.ki_step
               /\ adaptive'.kd_step = adaptive.kd_step]_vars

C28_WaitSucceedsIffSeen ==
    \A a \in Actors :
        io[a].waits >= 1 =>
            (io[a].last_wait = EXIT_SUCCESS <=> io[a].seen)

\* C29: no call of ec_io_wait sleeps more than 100 times, every port access
\* of a transaction moves it one step on, and a transaction that has
\* returned has made 3 waits (ec_io_read) or 4 (ec_io_do), whatever the
\* status port showed.
C29_TransactionsBounded ==
    \A a \in Actors :
        /\ io[a].sleeps <= EC_WAIT_POLLS
        /\ InTransaction(io[a]) => io[a].pc \in 1..(Len(TxnSteps(io[a])) + 1)
        /\ io[a].kind = "read" =>
               /\ io[a].waits <= 3
               /\ io[a].done => io[a].waits = 3
        /\ io[a].kind = "do" =>
               /\ io[a].waits <= 4
               /\ io[a].done => io[a].waits = 4

\* ec_io_do has returned after four waits, the last of which slept 100
\* times without seeing the flag
C29_Witness ==
    /\ io["worker"].kind = "do"
    /\ io["worker"].done
    /\ io["worker"].waits = 4
    /\ io["worker"].sleeps = EC_WAIT_POLLS
    /\ ~io["worker"].seen
    /\ io["worker"].result = EXIT_FAILURE

\* C27: a connection dropped for a failed accept, a failed recv or an empty
\* request leaves share_info and the target as they were and the server
\* thread in its loop with the socket open; the request of the connection
\* after it is handled and answered.
C27_DropKeepsServing ==
    /\ again.req \in DropMarks =>
          /\ share_info = again.left
          /\ target_temperature = 65
          /\ ipcPc \in {"select", "close"}
          /\ socket_running # 0
          /\ server_sock = "open"
    /\ (again.last \in DropMarks /\ again.req \notin DropMarks /\ ipcPc = "close") =>
          /\ ipc.cmd = handle_client_command(again.req)
          /\ ipc.resp.kind = ipc.cmd.kind
          /\ ipc.cmd.kind = "SET_FAN" =>
                 share_info.manual_next_fan_duty = ipc.cmd.n
          /\ ipc.cmd.kind = "SET_AUTO" => share_info.auto_duty = 1

\* SET_FAN 80 answered on the connection after one whose recv failed
C27_Witness ==
    /\ again.last = DropMark("recv_error")
    /\ ipcPc = "close"
    /\ ipc.cmd = [kind |-> "SET_FAN", n |-> 80]
    /\ ipc.resp.kind = "SET_FAN"
    /\ share_info.manual_next_fan_duty = 80
    /\ share_info.auto_duty = 0

C23_WriteSendsRoundedByte ==
    (/\ io["worker"].kind = "do"
     /\ io["worker"].done
     /\ io["worker"].arg \in 1..100)
        => io["worker"].sent =
               << <<EC_SC, 153>>, <<EC_DATA, 1>>,
                  <<EC_DATA, (io["worker"].arg * 510 + 100) \div 200>> >>

\* C24: a call of ec_write_fan_duty(pct) with pct outside 1..100 has
\* returned EXIT_FAILURE and has written no byte to either port.
C24_RejectedWriteSendsNothing ==
    (/\ io["worker"].kind = "do"
     /\ io["worker"].arg \notin 1..100)
        => /\ io["worker"].done
           /\ io["worker"].result = EXIT_FAILURE
           /\ io["worker"].sent = <<>>
           /\ io["worker"].waits = 0

\* ec_write_fan_duty(0) has returned
C24_Witness ==
    /\ io["worker"].kind = "do"
    /\ io["worker"].arg = 0
    /\ io["worker"].done
    /\ io["worker"].result = EXIT_FAILURE

\* C22: when SET_AUTO, or SET_FAN n with n in 1..100, has been handled
\* right after the same request, share_info is what the first handling
\* left.
C22_SetIdempotent ==
    (/\ ipcPc = "close"
     /\ again.last = again.req
     /\ ipc.cmd.kind \in {"SET_AUTO", "SET_FAN"})
        => share_info = again.left

\* SET_FAN 80 handled a second time, as the third request of the client
C22_Witness ==
    /\ ipcPc = "close"
    /\ served = 3
    /\ again.last = again.req
    /\ ipc.cmd = [kind |-> "SET_FAN", n |-> 80]
    /\ again.left.auto_duty = 0
    /\ again.left.manual_next_fan_duty = 80
    /\ ipc.pre.auto_duty = 0

\* C21: after the readings jump from a long run at 45 to 85 (target 65,
\* default gains), the computed duty never falls from one tick to the
\* next and is at least 60 on the fifth tick.
C21_StepLoadResponse ==
    /\ load.since >= 2 => worker.next_duty >= load.prev_duty
    /\ load.since = 5 => worker.next_duty >= 60

\* C15: an instance started while another one runs is refused before it
\* touches the EC or creates the socket, so at no time are two instances
\* past the instance check.
C15_SingleInstance ==
    Cardinality({i \in Instances :
                    inst[i].pc \in {"privileges", "ec_init", "socket", "loop"}}) <= 1

\* C14: all EC port access is made by a single thread of control, so no two
\* EC transactions are ever in progress at the same time.
C14_OneEcTransactionAtATime ==
    Cardinality({a \in Actors : InTransaction(io[a])}) <= 1

====
